---- MODULE Spec2Model ----
(***************************************************************************)
(* Model of the Truly R63350 DSI panel driver's power sequencing           *)
(* (drivers/gpu/drm/panel/panel_truly_r63350.rs): prepare() and            *)
(* unprepare() run by several framework callers on one device instance,    *)
(* under the device mutex, against a reset GPIO, three regulators and the  *)
(* DSI bus, each fallible call failing nondeterministically.               *)
(***************************************************************************)
EXTENDS Integers, Sequences, FiniteSets, TLC

VARIABLES
    pdata,        \* Registrations.pdata: the platform data of the matched chip
    has_reset,    \* Registrations.reset_gpio is Some(_)
    prepared,     \* Registrations.prepared
    mode_flags,   \* mipi_dsi_device.mode_flags
    reset_value,  \* logical level last driven on the reset line
    rail_net,     \* per rail: successful enable() calls minus disable() calls
    lock,         \* holder of the DeviceData mutex, 0 when free
    pc,           \* per caller: position in prepare()/unprepare()
    guard_v,      \* per caller: the KVec held by the `regulators` ScopeGuard
    guard_regs,   \* per caller: the `regulators` ScopeGuard is armed
    guard_reset,  \* per caller: the `reset` ScopeGuard is armed
    idx,          \* per caller: loop index (command table, rail, rollback)
    err,          \* per caller: error being propagated by `?`
    log,          \* hardware operations since the last lock acquisition
    call,         \* the call that last acquired the lock: caller, operation, result
    pre,          \* device state when the lock was last acquired
    failed,       \* ignored failures (let _ = ...) since the last acquisition
    fail_at,      \* step whose error the current prepare() propagates
    calls,        \* number of calls started
    decl,         \* regmap: the register declaration the device was built from
    focus,        \* regmap: the register the operations of this run address
    regs,         \* regmap: register contents as the backend reads them
    lastw,        \* regmap: per register, the last successful field write still standing
    ftab,         \* regmap: life cycle of the Fields table
    live,         \* regmap: backend field handles currently allocated
    rop,          \* regmap: the last operation, its arguments and its result
    rops          \* regmap: number of operations run

pvars == <<pdata, has_reset, prepared, mode_flags, reset_value, rail_net, lock,
           pc, guard_v, guard_regs, guard_reset, idx, err, log, call,
           pre, failed, fail_at, calls>>

rvars == <<decl, focus, regs, lastw, ftab, live, rop, rops>>

vars == <<pvars, rvars>>

\* ---------------------------------------------------------------- bounds
NCallers == 2
MaxCalls == 3

Callers == 1..NCallers

\* ------------------------------------------------------------- constants
VIDEO == 1
VIDEO_BURST == 2
LPM == 2048
NSEC_PER_USEC == 1000
NSEC_PER_MSEC == 1000000
NumRegulators == 3

Rails == 0..(NumRegulators - 1)

\* Errors a binding can hand back (to_result of a negative return value).
BusErrors == {"EIO", "ETIMEDOUT"}

\* -------------------------------------------------- platform data
\* One entry per command: <<payload bytes, delay in ms>>.
AUO_PDATA ==
    [panel_on_cmds |-> <<
        <<<<176, 4>>, 0>>,
        <<<<214, 1>>, 0>>,
        <<<<179, 20, 0, 0, 0, 0, 0>>, 0>>,
        <<<<180, 12, 0>>, 0>>,
        <<<<182, 75, 219, 0>>, 0>>,
        <<<<192, 102>>, 0>>,
        <<<<193, 4, 96, 0, 32, 41, 65, 34, 251, 240, 255, 255, 155, 123, 207, 181, 255, 255, 135, 140, 197, 17, 84, 2, 0, 0, 0, 0, 0, 34, 17, 2, 33, 0, 255, 17>>, 0>>,
        <<<<194, 49, 247, 128, 6, 4, 0, 0, 8>>, 0>>,
        <<<<196, 112, 0, 0, 102, 102, 102, 102, 102, 102, 0, 2>>, 0>>,
        <<<<198, 200, 60, 60, 7, 1, 7, 1, 0, 0, 0, 0, 0, 0, 0, 0, 0, 0, 14, 26, 7, 200>>, 0>>,
        <<<<199, 10, 24, 32, 41, 55, 67, 77, 91, 63, 70, 82, 95, 103, 112, 124, 10, 24, 32, 41, 55, 67, 77, 91, 63, 70, 82, 95, 103, 112, 124>>, 0>>,
        <<<<203, 127, 225, 135, 255, 0, 0, 0, 0, 0, 0, 0, 0, 224, 0, 0>>, 0>>,
        <<<<204, 50>>, 0>>,
        <<<<208, 17, 0, 0, 86, 215, 64, 25, 25, 9, 0>>, 0>>,
        <<<<209, 0, 72, 22, 15>>, 0>>,
        <<<<211, 27, 51, 187, 187, 179, 51, 51, 51, 51, 0, 1, 0, 0, 216, 160, 12, 55, 55, 51, 51, 114, 18, 138, 87, 61, 188>>, 0>>,
        <<<<213, 6, 0, 0, 1, 53, 1, 53>>, 0>>,
        <<<<41>>, 100>>,
        <<<<17>>, 120>> >>,
     panel_off_cmds |-> <<
        <<<<40>>, 10>>,
        <<<<176, 4>>, 120>> >>]

TRULY_PDATA ==
    [panel_on_cmds |-> <<
        <<<<176, 0>>, 0>>,
        <<<<214, 1>>, 0>>,
        <<<<179, 20, 0, 0, 0, 0, 0>>, 0>>,
        <<<<180, 12, 0>>, 0>>,
        <<<<182, 75, 219, 22>>, 0>>,
        <<<<190, 0, 4>>, 0>>,
        <<<<192, 102>>, 0>>,
        <<<<193, 4, 96, 0, 32, 169, 48, 32, 99, 240, 255, 255, 155, 123, 207, 181, 255, 255, 135, 140, 65, 34, 84, 2, 0, 0, 0, 0, 0, 34, 51, 3, 34, 0, 255>>, 0>>,
        <<<<194, 49, 247, 128, 6, 4, 0, 0, 8>>, 0>>,
        <<<<195, 0, 0, 0>>, 0>>,
        <<<<196, 112, 0, 0, 102, 102, 102, 102, 102, 102, 0, 2>>, 0>>,
        <<<<197, 0>>, 0>>,
        <<<<198, 200, 60, 60, 7, 1, 7, 1, 0, 0, 0, 0, 0, 0, 0, 0, 0, 0, 14, 26, 7, 200>>, 0>>,
        <<<<199, 3, 21, 31, 42, 57, 70, 78, 91, 61, 69, 82, 95, 104, 109, 114, 1, 21, 31, 42, 57, 70, 78, 91, 61, 69, 82, 95, 104, 109, 120>>, 0>>,
        <<<<203, 255, 225, 135, 255, 0, 0, 0, 0, 255, 225, 135, 255, 232, 0, 0>>, 0>>,
        <<<<204, 52>>, 0>>,
        <<<<208, 17, 0, 0, 86, 213, 64, 25, 25, 9, 0>>, 0>>,
        <<<<209, 0, 72, 22, 15>>, 0>>,
        <<<<210, 92, 0, 0>>, 0>>,
        <<<<211, 27, 51, 187, 187, 179, 51, 51, 51, 51, 0, 1, 0, 0, 216, 160, 12, 77, 77, 51, 51, 114, 18, 138, 87, 61, 188>>, 0>>,
        <<<<213, 6, 0, 0, 1, 57, 1, 57>>, 0>>,
        <<<<216, 0, 0, 0>>, 0>>,
        <<<<217, 0, 0, 0>>, 0>>,
        <<<<253, 0, 0, 0, 48>>, 0>>,
        <<<<53, 0>>, 0>>,
        <<<<41>>, 50>>,
        <<<<17>>, 120>> >>,
     panel_off_cmds |-> <<
        <<<<40>>, 20>>,
        <<<<176, 4>>, 0>>,
        <<<<211, 19, 51, 187, 179, 179, 51, 51, 51, 51, 0, 1, 0, 0, 216, 160, 12, 77, 77, 51, 51, 114, 18, 138, 87, 61, 188>>, 27>>,
        <<<<16>>, 120>>,
        <<<<176, 0>>, 0>>,
        <<<<177, 1>>, 0>> >>]
\* --------------------------------------------------------------- helpers
\* `flags | bit` and `flags & !bit` for a single-bit mask.
HasFlag(flags, bit) == (flags \div bit) % 2 = 1
OrFlag(flags, bit) == IF HasFlag(flags, bit) THEN flags ELSE flags + bit
AndNotFlag(flags, bit) == IF HasFlag(flags, bit) THEN flags - bit ELSE flags

\* Delta::from_nanos / Delta::from_millis: the span in nanoseconds.
from_nanos(nanos) == nanos
from_millis(millis) == millis * NSEC_PER_MSEC

\* delay::fsleep: the microseconds handed to the kernel's fsleep, rounded up.
fsleep_usecs(delta) == (delta + NSEC_PER_USEC - 1) \div NSEC_PER_USEC

\* Faulty variant: the zero-delay case is not special-cased.
cmd_duration_NoMinimum(cmd) == from_millis(cmd[2])

\* The pause after a table command: `if cmd.1 == 0 { 100 ns } else { cmd.1 ms }`.
cmd_duration(cmd) == IF cmd[2] = 0 THEN from_nanos(100) ELSE from_millis(cmd[2])

\* One operation as the log records it: who issued it, which call, its
\* argument (level, rail, table position, nanoseconds), the bytes written, the
\* microseconds slept, and the result ("ignored" when the driver discards it).
Ev(c, name, a, buf) ==
    [by |-> c, op |-> name, a |-> a, us |-> 0, buf |-> buf, res |-> "OK"]
FailEv(c, name, a, buf, e) ==
    [by |-> c, op |-> name, a |-> a, us |-> 0, buf |-> buf, res |-> e]
IgnoredEv(c, name, a, buf) ==
    [by |-> c, op |-> name, a |-> a, us |-> 0, buf |-> buf, res |-> "ignored"]
SleepEv(c, delta) ==
    [by |-> c, op |-> "fsleep", a |-> delta, us |-> fsleep_usecs(delta),
     buf |-> <<>>, res |-> "OK"]

Snapshot ==
    [prepared |-> prepared, mode_flags |-> mode_flags,
     reset_value |-> reset_value, rail_net |-> rail_net]

\* The panel driver owns no register map: the regmap variables stay empty.
NoRegmap ==
    /\ decl = "none"
    /\ focus = 0
    /\ regs = <<>>
    /\ lastw = <<>>
    /\ ftab = "unbound"
    /\ live = {}
    /\ rop = [op |-> "none"]
    /\ rops = 0

\* ------------------------------------------------------------------ Init
\* The state probe() leaves: mode flags VIDEO | VIDEO_BURST, the reset line
\* requested OUT_LOW, nobody prepared, no rail enabled by this consumer.
Init ==
    /\ pdata \in {AUO_PDATA, TRULY_PDATA}
    /\ has_reset \in BOOLEAN
    /\ prepared = FALSE
    /\ mode_flags = VIDEO + VIDEO_BURST
    /\ reset_value = 0
    /\ rail_net = [r \in Rails |-> 0]
    /\ lock = 0
    /\ pc = [c \in Callers |-> "idle"]
    /\ guard_v = [c \in Callers |-> <<>>]
    /\ guard_regs = [c \in Callers |-> FALSE]
    /\ guard_reset = [c \in Callers |-> FALSE]
    /\ idx = [c \in Callers |-> 0]
    /\ err = [c \in Callers |-> "OK"]
    /\ log = <<>>
    /\ call = [by |-> 0, op |-> "none", ret |-> "none"]
    /\ pre = Snapshot
    /\ failed = {}
    /\ fail_at = "none"
    /\ calls = 0
    /\ NoRegmap

\* ------------------------------------------------- the framework's calls
\* drm_panel_funcs.prepare / .unprepare invoked by the framework.
CallPrepare(c) ==
    /\ pc[c] = "idle"
    /\ UNCHANGED rvars
    /\ calls < MaxCalls
    /\ calls' = calls + 1
    /\ pc' = [pc EXCEPT ![c] = "p_lock"]
    /\ UNCHANGED <<pdata, has_reset, prepared, mode_flags, reset_value, rail_net,
                   lock, guard_v, guard_regs, guard_reset, idx, err, log, call,
                   pre, failed, fail_at>>

CallUnprepare(c) ==
    /\ pc[c] = "idle"
    /\ UNCHANGED rvars
    /\ calls < MaxCalls
    /\ calls' = calls + 1
    /\ pc' = [pc EXCEPT ![c] = "u_lock"]
    /\ UNCHANGED <<pdata, has_reset, prepared, mode_flags, reset_value, rail_net,
                   lock, guard_v, guard_regs, guard_reset, idx, err, log, call,
                   pre, failed, fail_at>>

\* ------------------------------------------------------------- the mutex
\* Faulty variant: lock() that does not wait for the holder.
MutexFree_NoWait(c) == TRUE

\* data.lock(): blocks until the mutex is free, then holds it.
MutexFree(c) == lock = 0

\* The effects of acquiring: the mutex is held and the call's record starts.
Acquire(c, name) ==
    /\ lock' = c
    /\ call' = [by |-> c, op |-> name, ret |-> "none"]
    /\ log' = <<>>
    /\ pre' = Snapshot
    /\ failed' = {}
    /\ fail_at' = "none"
    /\ guard_v' = [guard_v EXCEPT ![c] = <<>>]
    /\ guard_regs' = [guard_regs EXCEPT ![c] = FALSE]
    /\ guard_reset' = [guard_reset EXCEPT ![c] = FALSE]
    /\ idx' = [idx EXCEPT ![c] = 0]
    /\ err' = [err EXCEPT ![c] = "OK"]

\* Faulty variant: the MutexGuard is forgotten, the mutex stays held.
Release_KeepsLock(c, result) ==
    /\ lock' = lock
    /\ call' = [call EXCEPT !.ret = result]
    /\ pc' = [pc EXCEPT ![c] = "idle"]
    /\ guard_v' = [guard_v EXCEPT ![c] = <<>>]
    /\ guard_regs' = [guard_regs EXCEPT ![c] = FALSE]
    /\ guard_reset' = [guard_reset EXCEPT ![c] = FALSE]
    /\ idx' = [idx EXCEPT ![c] = 0]
    /\ err' = [err EXCEPT ![c] = "OK"]

\* Drop of the MutexGuard at function exit, the result handed to the caller.
Release(c, result) ==
    /\ lock' = IF lock = c THEN 0 ELSE lock
    /\ call' = [call EXCEPT !.ret = result]
    /\ pc' = [pc EXCEPT ![c] = "idle"]
    /\ guard_v' = [guard_v EXCEPT ![c] = <<>>]
    /\ guard_regs' = [guard_regs EXCEPT ![c] = FALSE]
    /\ guard_reset' = [guard_reset EXCEPT ![c] = FALSE]
    /\ idx' = [idx EXCEPT ![c] = 0]
    /\ err' = [err EXCEPT ![c] = "OK"]

\* ---------------------------------------------------------------- prepare
\* let mut data = data.lock();
PrepareLock(c) ==
    /\ pc[c] = "p_lock"
    /\ UNCHANGED rvars
    /\ MutexFree(c)
    /\ Acquire(c, "prepare")
    /\ pc' = [pc EXCEPT ![c] = "p_reset"]
    /\ UNCHANGED <<pdata, has_reset, prepared, mode_flags, reset_value, rail_net,
                   calls>>

\* if let Some(reset) = reset_gpio { reset.set_value(1) }; fsleep(30 ms)
PrepareAssertReset(c) ==
    /\ pc[c] = "p_reset"
    /\ UNCHANGED rvars
    /\ reset_value' = IF has_reset THEN 1 ELSE reset_value
    /\ log' = log \o (IF has_reset THEN <<Ev(c, "gpio_set_value", 1, <<>>)>> ELSE <<>>)
                  \o <<SleepEv(c, from_millis(30))>>
    /\ pc' = [pc EXCEPT ![c] = "p_alloc"]
    /\ UNCHANGED <<pdata, has_reset, prepared, mode_flags, rail_net, lock,
                   guard_v, guard_regs, guard_reset, idx, err, call,
                   pre, failed, fail_at, calls>>

\* ScopeGuard::new_with_data(KVec::with_capacity(3, GFP_KERNEL)?, ...):
\* the allocation either fails (ENOMEM, no guard yet) or arms the guard.
PrepareAllocGuard(c) ==
    /\ pc[c] = "p_alloc"
    /\ UNCHANGED rvars
    /\ \/ /\ guard_regs' = [guard_regs EXCEPT ![c] = TRUE]
          /\ guard_v' = [guard_v EXCEPT ![c] = <<>>]
          /\ idx' = [idx EXCEPT ![c] = 0]
          /\ pc' = [pc EXCEPT ![c] = "p_enable"]
          /\ UNCHANGED <<err, fail_at>>
       \/ /\ err' = [err EXCEPT ![c] = "ENOMEM"]
          /\ fail_at' = "alloc"
          /\ pc' = [pc EXCEPT ![c] = "p_drop_reset"]
          /\ UNCHANGED <<guard_regs, guard_v, idx>>
    /\ UNCHANGED <<pdata, has_reset, prepared, mode_flags, reset_value, rail_net,
                   lock, guard_reset, log, call, pre, failed, calls>>

\* ------------------------------------------------------------ regulators
\* Regulator::enable() returned Ok: one more enable held on rail r.
RailAfterEnable(net, r) == [net EXCEPT ![r] = @ + 1]

\* Regulator::disable() was called on rail r; its result is discarded by
\* every caller in this driver (`let _ = r.disable()`).
RailAfterDisable(net, r) == [net EXCEPT ![r] = @ - 1]

\* The closure of the `regulators` guard: v.into_iter().for_each(disable).
RollbackOrder(v) == v

\* Faulty variant: the guards are leaked on the error path; nothing unwinds.
AfterPropagate_Leaked == "p_return"

\* Faulty variant: the `regulators` guard is dismissed before the error path.
AfterDropReset_Dismissed(v, armed) == "p_return"

\* The order in which the variables of prepare() are dropped on an early
\* return: in reverse of their declaration, `reset` before `regulators`.
AfterPropagate == "p_drop_reset"
AfterDropReset(v, armed) ==
    IF armed /\ Len(RollbackOrder(v)) > 0 THEN "p_drop_regs" ELSE "p_return"

\* Faulty variant: the array is walked back to front.
RegulatorAt_Reversed(i) == NumRegulators - 1 - i

\* The rail visited at position i of `for regulator in &mut
\* registrations.regulators`: the array is walked front to back.
RegulatorAt(i) == i

\* Faulty variant: the result of display-on is discarded as in unprepare()
\* (`let _ = dsi.dcs_set_display_on()`), so the call goes on to commit.
Propagate_DisplayOnIgnored(c, e, step) ==
    IF step = "display_on"
    THEN /\ err' = err
         /\ fail_at' = fail_at
         /\ pc' = [pc EXCEPT ![c] = "p_commit"]
    ELSE /\ err' = [err EXCEPT ![c] = e]
         /\ fail_at' = step
         /\ pc' = [pc EXCEPT ![c] = "p_drop_reset"]

\* `?` on a failed call: remember the error and start dropping the locals.
Propagate(c, e, step) ==
    /\ err' = [err EXCEPT ![c] = e]
    /\ fail_at' = step
    /\ pc' = [pc EXCEPT ![c] = AfterPropagate]

\* for regulator in &mut registrations.regulators {
\*     regulator.enable()?; regulators.push(regulator, GFP_KERNEL)?; }
\* (the push cannot fail: the capacity was reserved by with_capacity)
PrepareEnable(c) ==
    /\ pc[c] = "p_enable"
    /\ UNCHANGED rvars
    /\ LET k == RegulatorAt(idx[c]) IN
       \/ /\ rail_net' = RailAfterEnable(rail_net, k)
          /\ log' = Append(log, Ev(c, "regulator_enable", k, <<>>))
          /\ guard_v' = [guard_v EXCEPT ![c] = Append(@, k)]
          /\ idx' = [idx EXCEPT ![c] = @ + 1]
          /\ pc' = [pc EXCEPT ![c] =
                      IF idx[c] + 1 < NumRegulators THEN "p_enable" ELSE "p_release"]
          /\ UNCHANGED <<err, fail_at>>
       \/ /\ \E e \in BusErrors :
             /\ Propagate(c, e, "enable")
             /\ log' = Append(log, FailEv(c, "regulator_enable", k, <<>>, e))
          /\ UNCHANGED <<rail_net, guard_v, idx>>
    /\ UNCHANGED <<pdata, has_reset, prepared, mode_flags, reset_value, lock,
                   guard_regs, guard_reset, call, pre, failed, calls>>

\* fsleep(30 ms); if let Some(reset) { reset.set_value(0); arm the reset
\* guard }; fsleep(30 ms)
PrepareReleaseReset(c) ==
    /\ pc[c] = "p_release"
    /\ UNCHANGED rvars
    /\ reset_value' = IF has_reset THEN 0 ELSE reset_value
    /\ guard_reset' = [guard_reset EXCEPT ![c] = has_reset]
    /\ log' = log \o <<SleepEv(c, from_millis(30))>>
                  \o (IF has_reset THEN <<Ev(c, "gpio_set_value", 0, <<>>)>> ELSE <<>>)
                  \o <<SleepEv(c, from_millis(30))>>
    /\ pc' = [pc EXCEPT ![c] = "p_soft_reset"]
    /\ UNCHANGED <<pdata, has_reset, prepared, mode_flags, rail_net, lock,
                   guard_v, guard_regs, idx, err, call, pre, failed,
                   fail_at, calls>>

\* *dsi.mode_flags_mut() |= LPM; dsi.dcs_soft_reset()?; fsleep(20 ms)
PrepareSoftReset(c) ==
    /\ pc[c] = "p_soft_reset"
    /\ UNCHANGED rvars
    /\ mode_flags' = OrFlag(mode_flags, LPM)
    /\ \/ /\ log' = log \o <<Ev(c, "mode_flags_or", LPM, <<>>),
                            Ev(c, "dcs_soft_reset", 0, <<>>),
                            SleepEv(c, from_millis(20))>>
          /\ idx' = [idx EXCEPT ![c] = 1]
          /\ pc' = [pc EXCEPT ![c] =
                      IF Len(pdata.panel_on_cmds) > 0 THEN "p_on_cmd" ELSE "p_exit_sleep"]
          /\ UNCHANGED <<err, fail_at>>
       \/ /\ \E e \in BusErrors :
             /\ Propagate(c, e, "soft_reset")
             /\ log' = log \o <<Ev(c, "mode_flags_or", LPM, <<>>),
                            FailEv(c, "dcs_soft_reset", 0, <<>>, e)>>
          /\ UNCHANGED idx
    /\ UNCHANGED <<pdata, has_reset, prepared, reset_value, rail_net, lock,
                   guard_v, guard_regs, guard_reset, call, pre, failed,
                   calls>>

\* for cmd in pdata.panel_on_cmds { dsi.dcs_write_buffer(cmd.0)?; fsleep(..) }
PrepareOnCmd(c) ==
    /\ pc[c] = "p_on_cmd"
    /\ UNCHANGED rvars
    /\ LET cmd == pdata.panel_on_cmds[idx[c]] IN
       \/ /\ log' = log \o <<Ev(c, "dcs_write_buffer", idx[c], cmd[1]),
                            SleepEv(c, cmd_duration(cmd))>>
          /\ idx' = [idx EXCEPT ![c] = @ + 1]
          /\ pc' = [pc EXCEPT ![c] =
                      IF idx[c] < Len(pdata.panel_on_cmds) THEN "p_on_cmd"
                                                           ELSE "p_exit_sleep"]
          /\ UNCHANGED <<err, fail_at>>
       \/ /\ \E e \in BusErrors :
             /\ Propagate(c, e, "on_cmd")
             /\ log' = Append(log, FailEv(c, "dcs_write_buffer", idx[c], cmd[1], e))
          /\ UNCHANGED idx
    /\ UNCHANGED <<pdata, has_reset, prepared, mode_flags, reset_value, rail_net,
                   lock, guard_v, guard_regs, guard_reset, call, pre,
                   failed, calls>>

\* dsi.dcs_exit_sleep_mode()?; fsleep(120 ms)
PrepareExitSleep(c) ==
    /\ pc[c] = "p_exit_sleep"
    /\ UNCHANGED rvars
    /\ \/ /\ log' = log \o <<Ev(c, "dcs_exit_sleep_mode", 0, <<>>),
                            SleepEv(c, from_millis(120))>>
          /\ pc' = [pc EXCEPT ![c] = "p_display_on"]
          /\ UNCHANGED <<err, fail_at>>
       \/ /\ \E e \in BusErrors :
             /\ Propagate(c, e, "exit_sleep")
             /\ log' = Append(log, FailEv(c, "dcs_exit_sleep_mode", 0, <<>>, e))
    /\ UNCHANGED <<pdata, has_reset, prepared, mode_flags, reset_value, rail_net,
                   lock, guard_v, guard_regs, guard_reset, idx, call,
                   pre, failed, calls>>

\* dsi.dcs_set_display_on()?; fsleep(120 ms)
PrepareDisplayOn(c) ==
    /\ pc[c] = "p_display_on"
    /\ UNCHANGED rvars
    /\ \/ /\ log' = log \o <<Ev(c, "dcs_set_display_on", 0, <<>>),
                            SleepEv(c, from_millis(120))>>
          /\ pc' = [pc EXCEPT ![c] = "p_commit"]
          /\ UNCHANGED <<err, fail_at>>
       \/ /\ \E e \in BusErrors :
             /\ Propagate(c, e, "display_on")
             /\ log' = Append(log, FailEv(c, "dcs_set_display_on", 0, <<>>, e))
    /\ UNCHANGED <<pdata, has_reset, prepared, mode_flags, reset_value, rail_net,
                   lock, guard_v, guard_regs, guard_reset, idx, call,
                   pre, failed, calls>>

\* regulators.dismiss(); reset.dismiss(); registrations.prepared = true;
\* Ok(()) and the MutexGuard dropped.
PrepareCommit(c) ==
    /\ pc[c] = "p_commit"
    /\ UNCHANGED rvars
    /\ prepared' = TRUE
    /\ Release(c, "OK")
    /\ UNCHANGED <<pdata, has_reset, mode_flags, reset_value, rail_net, log, pre,
                   failed, fail_at, calls>>

\* Faulty variant: the `reset` guard is never armed.
ResetGuardFires_Never(armed, present) == FALSE

\* The `reset` guard acts when it was created (Some(ScopeGuard)) and not
\* dismissed, and its closure finds the GPIO present.
ResetGuardFires(armed, present) == armed /\ present

\* Drop of `reset` on an early return: the guard, if armed, runs
\* `if let Some(reset) = reset_gpio { reset.set_value(1) }`.
PrepareDropReset(c) ==
    /\ pc[c] = "p_drop_reset"
    /\ UNCHANGED rvars
    /\ LET fire == ResetGuardFires(guard_reset[c], has_reset) IN
       /\ reset_value' = IF fire THEN 1 ELSE reset_value
       /\ log' = IF fire THEN Append(log, Ev(c, "gpio_set_value", 1, <<>>)) ELSE log
    /\ guard_reset' = [guard_reset EXCEPT ![c] = FALSE]
    /\ idx' = [idx EXCEPT ![c] = 1]
    /\ pc' = [pc EXCEPT ![c] = AfterDropReset(guard_v[c], guard_regs[c])]
    /\ UNCHANGED <<pdata, has_reset, prepared, mode_flags, rail_net, lock,
                   guard_v, guard_regs, err, call, pre, failed,
                   fail_at, calls>>

\* Drop of `regulators` on an early return: one `let _ = r.disable()` of the
\* guard's closure per step, the result ignored.
PrepareDropRegulators(c) ==
    /\ pc[c] = "p_drop_regs"
    /\ UNCHANGED rvars
    /\ LET order == RollbackOrder(guard_v[c])
           r == order[idx[c]] IN
       /\ rail_net' = RailAfterDisable(rail_net, r)
       /\ \E ok \in BOOLEAN :
             failed' = IF ok THEN failed ELSE failed \cup {"rollback_disable"}
       /\ log' = Append(log, IgnoredEv(c, "regulator_disable", r, <<>>))
       /\ idx' = [idx EXCEPT ![c] = @ + 1]
       /\ pc' = [pc EXCEPT ![c] =
                   IF idx[c] < Len(order) THEN "p_drop_regs" ELSE "p_return"]
    /\ UNCHANGED <<pdata, has_reset, prepared, mode_flags, reset_value, lock,
                   guard_v, guard_regs, guard_reset, err, call, pre,
                   fail_at, calls>>

\* The error reaches the caller; the MutexGuard is dropped last.
PrepareReturnErr(c) ==
    /\ pc[c] = "p_return"
    /\ UNCHANGED rvars
    /\ Release(c, err[c])
    /\ UNCHANGED <<pdata, has_reset, prepared, mode_flags, reset_value, rail_net,
                   log, pre, failed, fail_at, calls>>

\* -------------------------------------------------------------- unprepare
\* let mut data = data.lock();
UnprepareLock(c) ==
    /\ pc[c] = "u_lock"
    /\ UNCHANGED rvars
    /\ MutexFree(c)
    /\ Acquire(c, "unprepare")
    /\ pc' = [pc EXCEPT ![c] = "u_check"]
    /\ UNCHANGED <<pdata, has_reset, prepared, mode_flags, reset_value, rail_net,
                   calls>>

\* Faulty variant: the early return is missing.
NotPrepared_Missing(p) == FALSE

\* The test of the early return: `!registrations.prepared`.
NotPrepared(p) == ~p

\* if !registrations.prepared { return Ok(()); }
UnprepareCheck(c) ==
    /\ pc[c] = "u_check"
    /\ UNCHANGED rvars
    /\ \/ /\ NotPrepared(prepared)
          /\ Release(c, "OK")
       \/ /\ ~NotPrepared(prepared)
          /\ pc' = [pc EXCEPT ![c] = "u_display_off"]
          /\ UNCHANGED <<lock, call, guard_v, guard_regs, guard_reset, idx, err>>
    /\ UNCHANGED <<pdata, has_reset, prepared, mode_flags, reset_value, rail_net,
                   log, pre, failed, fail_at, calls>>

\* *dsi.mode_flags_mut() &= !LPM; let _ = dsi.dcs_set_display_off();
\* fsleep(120 ms)
UnprepareDisplayOff(c) ==
    /\ pc[c] = "u_display_off"
    /\ UNCHANGED rvars
    /\ mode_flags' = AndNotFlag(mode_flags, LPM)
    /\ \E ok \in BOOLEAN :
          failed' = IF ok THEN failed ELSE failed \cup {"display_off"}
    /\ log' = log \o <<Ev(c, "mode_flags_andnot", LPM, <<>>),
                      IgnoredEv(c, "dcs_set_display_off", 0, <<>>),
                      SleepEv(c, from_millis(120))>>
    /\ pc' = [pc EXCEPT ![c] = "u_enter_sleep"]
    /\ UNCHANGED <<pdata, has_reset, prepared, reset_value, rail_net, lock,
                   guard_v, guard_regs, guard_reset, idx, err, call,
                   pre, fail_at, calls>>

\* let _ = dsi.dcs_enter_sleep_mode();
UnprepareEnterSleep(c) ==
    /\ pc[c] = "u_enter_sleep"
    /\ UNCHANGED rvars
    /\ \E ok \in BOOLEAN :
          failed' = IF ok THEN failed ELSE failed \cup {"enter_sleep"}
    /\ log' = Append(log, IgnoredEv(c, "dcs_enter_sleep_mode", 0, <<>>))
    /\ idx' = [idx EXCEPT ![c] = 1]
    /\ pc' = [pc EXCEPT ![c] =
                IF Len(pdata.panel_off_cmds) > 0 THEN "u_off_cmd" ELSE "u_reset"]
    /\ UNCHANGED <<pdata, has_reset, prepared, mode_flags, reset_value, rail_net,
                   lock, guard_v, guard_regs, guard_reset, err, call,
                   pre, fail_at, calls>>

\* Faulty variant: the power-off loop stops at the first failed write.
AfterOffCmd_Break(ok, i, n) == IF ok /\ i < n THEN "u_off_cmd" ELSE "u_reset"

\* The power-off loop after command i of n: `let _ =` discards the result,
\* so the loop goes on to the next command whether the write succeeded or not.
AfterOffCmd(ok, i, n) == IF i < n THEN "u_off_cmd" ELSE "u_reset"

\* for cmd in pdata.panel_off_cmds { let _ = dsi.dcs_write_buffer(cmd.0);
\*                                   fsleep(..) }
UnprepareOffCmd(c) ==
    /\ pc[c] = "u_off_cmd"
    /\ UNCHANGED rvars
    /\ LET cmd == pdata.panel_off_cmds[idx[c]] IN
       /\ \E ok \in BOOLEAN :
             /\ failed' = IF ok THEN failed ELSE failed \cup {"off_cmd"}
             /\ pc' = [pc EXCEPT ![c] =
                         AfterOffCmd(ok, idx[c], Len(pdata.panel_off_cmds))]
       /\ log' = log \o <<IgnoredEv(c, "dcs_write_buffer", idx[c], cmd[1]),
                         SleepEv(c, cmd_duration(cmd))>>
    /\ idx' = [idx EXCEPT ![c] = @ + 1]
    /\ UNCHANGED <<pdata, has_reset, prepared, mode_flags, reset_value, rail_net,
                   lock, guard_v, guard_regs, guard_reset, err, call,
                   pre, fail_at, calls>>

\* if let Some(reset) = &mut registrations.reset_gpio { reset.set_value(1) }
UnprepareAssertReset(c) ==
    /\ pc[c] = "u_reset"
    /\ UNCHANGED rvars
    /\ reset_value' = IF has_reset THEN 1 ELSE reset_value
    /\ log' = IF has_reset THEN Append(log, Ev(c, "gpio_set_value", 1, <<>>)) ELSE log
    /\ idx' = [idx EXCEPT ![c] = 0]
    /\ pc' = [pc EXCEPT ![c] = "u_disable"]
    /\ UNCHANGED <<pdata, has_reset, prepared, mode_flags, rail_net, lock,
                   guard_v, guard_regs, guard_reset, err, call, pre,
                   failed, fail_at, calls>>

\* for regulator in &mut registrations.regulators { let _ = regulator.disable(); }
UnprepareDisable(c) ==
    /\ pc[c] = "u_disable"
    /\ UNCHANGED rvars
    /\ LET r == RegulatorAt(idx[c]) IN
       /\ rail_net' = RailAfterDisable(rail_net, r)
       /\ \E ok \in BOOLEAN :
             failed' = IF ok THEN failed ELSE failed \cup {"disable"}
       /\ log' = Append(log, IgnoredEv(c, "regulator_disable", r, <<>>))
       /\ idx' = [idx EXCEPT ![c] = @ + 1]
       /\ pc' = [pc EXCEPT ![c] =
                   IF idx[c] + 1 < NumRegulators THEN "u_disable" ELSE "u_finish"]
    /\ UNCHANGED <<pdata, has_reset, prepared, mode_flags, reset_value, lock,
                   guard_v, guard_regs, guard_reset, err, call, pre,
                   fail_at, calls>>

\* registrations.prepared = false; Ok(()) and the MutexGuard dropped.
UnprepareFinish(c) ==
    /\ pc[c] = "u_finish"
    /\ UNCHANGED rvars
    /\ prepared' = FALSE
    /\ Release(c, "OK")
    /\ UNCHANGED <<pdata, has_reset, mode_flags, reset_value, rail_net, log, pre,
                   failed, fail_at, calls>>

\* ------------------------------------------------------------------ Next
Next ==
    \E c \in Callers :
        \/ CallPrepare(c)
        \/ CallUnprepare(c)
        \/ PrepareLock(c)
        \/ PrepareAssertReset(c)
        \/ PrepareAllocGuard(c)
        \/ PrepareEnable(c)
        \/ PrepareReleaseReset(c)
        \/ PrepareSoftReset(c)
        \/ PrepareOnCmd(c)
        \/ PrepareExitSleep(c)
        \/ PrepareDisplayOn(c)
        \/ PrepareCommit(c)
        \/ PrepareDropReset(c)
        \/ PrepareDropRegulators(c)
        \/ PrepareReturnErr(c)
        \/ UnprepareLock(c)
        \/ UnprepareCheck(c)
        \/ UnprepareDisplayOff(c)
        \/ UnprepareEnterSleep(c)
        \/ UnprepareOffCmd(c)
        \/ UnprepareAssertReset(c)
        \/ UnprepareDisable(c)
        \/ UnprepareFinish(c)

Spec == Init /\ [][Next]_vars

\* ======================================================================
\* Properties of prepare() and unprepare()
\* ======================================================================
\* The call that last took the lock has returned; log, pre, failed and
\* fail_at describe that call.
Done == call.ret # "none"
PrepareDone == call.op = "prepare" /\ Done
PrepareOk == PrepareDone /\ call.ret = "OK"
PrepareErr == PrepareDone /\ call.ret # "OK"
UnprepareDone == call.op = "unprepare" /\ Done

Shape(l) == [i \in 1..Len(l) |-> <<l[i].op, l[i].a, l[i].buf>>]
ArgsOf(l) == [i \in 1..Len(l) |-> l[i].a]
EnabledRails(l) ==
    ArgsOf(SelectSeq(l, LAMBDA e : e.op = "regulator_enable" /\ e.res = "OK"))
DisabledRails(l) == ArgsOf(SelectSeq(l, LAMBDA e : e.op = "regulator_disable"))
Errors(l) == SelectSeq(l, LAMBDA e : e.res \in BusErrors)
Times(s, x) == Cardinality({i \in 1..Len(s) : s[i] = x})
Reverse(s) == [i \in 1..Len(s) |-> s[Len(s) + 1 - i]]
Millis(n) == n * 1000000

Gpio(level) == <<"gpio_set_value", level, <<>>>>
Sleep(nanos) == <<"fsleep", nanos, <<>>>>
Enable(r) == <<"regulator_enable", r, <<>>>>
Disable(r) == <<"regulator_disable", r, <<>>>>
Dcs(name) == <<name, 0, <<>>>>

RECURSIVE TableSteps(_, _)
TableSteps(cmds, i) ==
    IF i > Len(cmds) THEN <<>>
    ELSE <<<<"dcs_write_buffer", i, cmds[i][1]>>,
           Sleep(IF cmds[i][2] = 0 THEN 100 ELSE Millis(cmds[i][2]))>>
         \o TableSteps(cmds, i + 1)

\* C1: when enabling rail k fails in a prepare() entered with prepared =
\* false, prepare() returns that error, rails 0..k-1 (and only they) were
\* enabled and each has been given one disable, rail k and the later rails
\* got neither a successful enable nor a disable, the reset line (if present)
\* is at 1 and prepared is still false.
C1_EnableFailureUnwinds ==
    (PrepareDone /\ fail_at = "enable" /\ ~pre.prepared) =>
        LET bad == Errors(log)
            k == bad[1].a
        IN /\ Len(bad) = 1
           /\ bad[1].op = "regulator_enable"
           /\ call.ret = bad[1].res
           /\ k \in Rails
           /\ EnabledRails(log) = [i \in 1..k |-> i - 1]
           /\ \A r \in Rails :
                 Times(DisabledRails(log), r) = (IF r < k THEN 1 ELSE 0)
           /\ rail_net = pre.rail_net
           /\ (has_reset => reset_value = 1)
           /\ prepared = FALSE

C1_Witness ==
    /\ PrepareDone /\ fail_at = "enable" /\ ~pre.prepared /\ has_reset
    /\ EnabledRails(log) = <<0, 1>>
    /\ DisabledRails(log) # <<>>

\* C2: when the soft reset, a power-on command, exit-sleep or display-on
\* fails, prepare() returns that error after both guards fired: after the
\* failed call the reset line (if present) was driven to 1 once and every
\* rail was given exactly one disable, and nothing else was done; prepared
\* was not written.
C2_BusFailureUnwinds ==
    (PrepareDone /\ fail_at \in {"soft_reset", "on_cmd", "exit_sleep", "display_on"}) =>
        LET bad == Errors(log)
            p == CHOOSE i \in 1..Len(log) : log[i].res \in BusErrors
            tail == SubSeq(log, p + 1, Len(log))
        IN /\ Len(bad) = 1
           /\ bad[1].op \in {"dcs_soft_reset", "dcs_write_buffer",
                             "dcs_exit_sleep_mode", "dcs_set_display_on"}
           /\ call.ret = bad[1].res
           /\ Len(tail) = NumRegulators + (IF has_reset THEN 1 ELSE 0)
           /\ (has_reset => /\ Times(Shape(tail), Gpio(1)) = 1
                            /\ reset_value = 1)
           /\ \A r \in Rails : Times(DisabledRails(tail), r) = 1
           /\ EnabledRails(log) = <<0, 1, 2>>
           /\ rail_net = pre.rail_net
           /\ prepared = pre.prepared

C2_Witness ==
    /\ PrepareDone /\ fail_at = "on_cmd" /\ has_reset /\ ~pre.prepared
    /\ Errors(log)[1].a = Len(pdata.panel_on_cmds)
    /\ call.ret = "ETIMEDOUT"

\* C3: prepare() writes prepared = true only on full success. A prepare()
\* that returned Ok had no failing step, enabled the three rails and disabled
\* none, left the reset line (if present) at 0 and ran no rollback; until it
\* returns, and when it returns an error, prepared keeps its pre-call value.
C3_PreparedOnlyOnSuccess ==
    /\ PrepareOk =>
          /\ prepared
          /\ fail_at = "none" /\ failed = {}
          /\ \A i \in 1..Len(log) : log[i].res = "OK"
          /\ EnabledRails(log) = <<0, 1, 2>>
          /\ DisabledRails(log) = <<>>
          /\ \A r \in Rails : rail_net[r] = pre.rail_net[r] + 1
          /\ (has_reset => /\ reset_value = 0
                           /\ Times(Shape(log), Gpio(1)) = 1
                           /\ Shape(log)[1] = Gpio(1))
    /\ PrepareErr => prepared = pre.prepared
    /\ (call.op = "prepare" /\ ~Done) => prepared = pre.prepared

C3_Witness ==
    PrepareOk /\ has_reset /\ ~pre.prepared /\ prepared

\* C4: the operations of a successful prepare() are exactly: reset line to 1
\* (if present), sleep 30 ms, enable rails 0, 1, 2, sleep 30 ms, reset line
\* to 0 (if present), sleep 30 ms, set the LPM flag, soft reset, sleep 20 ms,
\* every power-on command in table order each followed by its delay (100 ns
\* for a declared 0), exit sleep, sleep 120 ms, display on, sleep 120 ms; and
\* every sleep hands the kernel the requested time rounded up to a microsecond.
ExpectedPrepare ==
    (IF has_reset THEN <<Gpio(1)>> ELSE <<>>)
    \o <<Sleep(Millis(30)), Enable(0), Enable(1), Enable(2), Sleep(Millis(30))>>
    \o (IF has_reset THEN <<Gpio(0)>> ELSE <<>>)
    \o <<Sleep(Millis(30)), <<"mode_flags_or", 2048, <<>>>>,
         Dcs("dcs_soft_reset"), Sleep(Millis(20))>>
    \o TableSteps(pdata.panel_on_cmds, 1)
    \o <<Dcs("dcs_exit_sleep_mode"), Sleep(Millis(120)),
         Dcs("dcs_set_display_on"), Sleep(Millis(120))>>

C5_UnprepareIdle ==
    (UnprepareDone /\ ~pre.prepared) =>
        /\ call.ret = "OK"
        /\ log = <<>>
        /\ failed = {}
        /\ prepared = FALSE
        /\ mode_flags = pre.mode_flags
        /\ reset_value = pre.reset_value
        /\ rail_net = pre.rail_net

\* Reached by an unprepare() that follows prepare() and unprepare(): the reset
\* line is at 1 and the LPM flag is clear, as the first unprepare() left them.
C5_Witness ==
    /\ UnprepareDone /\ ~pre.prepared /\ call.ret = "OK" /\ log = <<>>
    /\ calls = 3 /\ has_reset /\ reset_value = 1
    /\ \A r \in Rails : rail_net[r] = 0

\* C6: unprepare() entered with prepared = true returns Ok and ends with
\* prepared = false whichever of its steps fail: every power-off command is
\* written, the reset line (if present) is asserted and a disable is issued
\* on each of the three rails.
C6_UnprepareBestEffort ==
    (UnprepareDone /\ pre.prepared) =>
        /\ call.ret = "OK"
        /\ prepared = FALSE
        /\ ArgsOf(SelectSeq(log, LAMBDA e : e.op = "dcs_write_buffer"))
              = [i \in 1..Len(pdata.panel_off_cmds) |-> i]
        /\ \A i \in 1..Len(log) :
              log[i].op = "dcs_write_buffer" =>
                  log[i].buf = pdata.panel_off_cmds[log[i].a][1]
        /\ Times(Shape(log), Dcs("dcs_set_display_off")) = 1
        /\ Times(Shape(log), Dcs("dcs_enter_sleep_mode")) = 1
        /\ (has_reset => Times(Shape(log), Gpio(1)) = 1 /\ reset_value = 1)
        /\ \A r \in Rails : Times(DisabledRails(log), r) = 1

C6_Witness ==
    /\ UnprepareDone /\ pre.prepared /\ call.ret = "OK" /\ has_reset
    /\ failed = {"display_off", "enter_sleep", "off_cmd", "disable"}

\* C7: an unprepare() from Prepared does, in this order: clear the LPM flag,
\* display off, sleep 120 ms, enter sleep, every power-off command in table
\* order each followed by its delay, reset line to 1 (if present), disable
\* rails 0, 1, 2; prepared stays true until all of that is done.
ExpectedUnprepare ==
    <<<<"mode_flags_andnot", 2048, <<>>>>, Dcs("dcs_set_display_off"),
      Sleep(Millis(120)), Dcs("dcs_enter_sleep_mode")>>
    \o TableSteps(pdata.panel_off_cmds, 1)
    \o (IF has_reset THEN <<Gpio(1)>> ELSE <<>>)
    \o <<Disable(0), Disable(1), Disable(2)>>

C7_UnprepareOrder ==
    /\ (UnprepareDone /\ pre.prepared) => Shape(log) = ExpectedUnprepare
    /\ (call.op = "unprepare" /\ ~Done /\ pre.prepared) =>
          /\ prepared
          /\ \E n \in 0..Len(ExpectedUnprepare) :
                Shape(log) = SubSeq(ExpectedUnprepare, 1, n)

C7_Witness ==
    /\ UnprepareDone /\ pre.prepared /\ has_reset /\ pdata = TRULY_PDATA
    /\ ~prepared

\* C8 (as claimed): the rollback of a failed prepare() disables the rails in
\* the reverse of the order in which they were enabled.
C8_ReverseRollback ==
    PrepareErr => DisabledRails(log) = Reverse(EnabledRails(log))

InBody(c) == pc[c] \notin {"idle", "p_lock", "u_lock"}

C10_MutualExclusion ==
    /\ \A c \in Callers : InBody(c) => (lock = c /\ call.by = c /\ ~Done)
    /\ \A c, d \in Callers : (InBody(c) /\ InBody(d)) => c = d
    /\ \A i \in 1..Len(log) : log[i].by = call.by
    /\ (lock = 0 /\ call.by # 0) => Done
    /\ (lock # 0) => (InBody(lock) /\ ~Done)

C10_Witness ==
    \E c, d \in Callers :
        /\ pc[c] = "p_drop_regs" /\ lock = c
        /\ pc[d] \in {"p_lock", "u_lock"}
        /\ Len(log) > 0

\* ======================================================================
\* The register map field layer (rust/kernel/regmap.rs) and its consumer,
\* the NCV6336 regulator driver (drivers/regulator/ncv6336.rs)
\* ======================================================================

\* ---------------------------------------------------------------- bounds
MaxRegOps == 3
MaxRawInput == 8

\* ------------------------------------------------------------- constants
READ == 1
WRITE == 2
PRECIOUS == 4
VOLATILE == 8
WRITE_NO_INC == 16
READ_NO_INC == 32
RW == READ + WRITE

\* core::ffi::c_uint is 32 bits wide; the NCV6336 map has 8-bit values.
UIntBits == 32
ValBits == 8

\* ------------------------------------------------------ bit vectors
\* A word is the set of the positions of its 1-bits.
Word == 0..(UIntBits - 1)

RECURSIVE BitsFrom(_, _)
BitsFrom(n, i) ==
    IF n = 0 THEN {}
    ELSE (IF n % 2 = 1 THEN {i} ELSE {}) \cup BitsFrom(n \div 2, i + 1)

\* The 32 bits of n; a negative n stands for the c_uint with the same bits
\* (two's complement), which is what `as c_uint` makes of an i32.
Bits(n) == IF n >= 0 THEN BitsFrom(n, 0) ELSE Word \ BitsFrom(-(n + 1), 0)

RECURSIVE Num(_)
Num(b) == IF b = {} THEN 0
          ELSE LET i == CHOOSE j \in b : TRUE IN (2 ^ i) + Num(b \ {i})

Shl(b, n) == {i + n : i \in b} \cap Word
Shr(b, n) == {i - n : i \in {j \in b : j >= n}}

\* kernel::bits::genmask(h, l): the 1-bits from l to h inclusive.
genmask(h, l) == l..h

\* ---------------------------------------------- register declarations
\* The field specifications accepted by regmap_register_fields!:
\* raw([msb:lsb], mode), bit(pos, mode), enum([msb:lsb], mode, {K = v, ...}).
raw(n, hi, lo, mode) ==
    [name |-> n, type |-> "raw", hi |-> hi, lo |-> lo, mode |-> mode, syms |-> {}]

bit(n, pos, mode) ==
    [name |-> n, type |-> "bit", hi |-> pos, lo |-> pos, mode |-> mode, syms |-> {}]

enum(n, hi, lo, mode, syms) ==
    [name |-> n, type |-> "enum", hi |-> hi, lo |-> lo, mode |-> mode, syms |-> syms]

group(n, addr, access, fields) ==
    [name |-> n, addr |-> addr, access |-> access, fields |-> fields]

\* regmap::registers!(REGS, { ... }) of the NCV6336 driver.
REGS == <<
    group("pid", 3, READ, << raw("value", 7, 0, "ro") >>),
    group("rid", 4, READ, << raw("value", 7, 0, "ro") >>),
    group("fid", 5, READ, << raw("value", 7, 0, "ro") >>),
    group("progvsel1", 16, RW, << raw("voutvsel1", 6, 0, "rw"),
                                  bit("envsel1", 7, "rw") >>),
    group("progvsel0", 17, RW, << raw("voutvsel0", 6, 0, "rw"),
                                  bit("envsel0", 7, "rw") >>),
    group("pgood", 18, RW, << bit("dischg", 4, "rw") >>),
    group("command", 20, RW, << bit("vselgt", 0, "rw"),
                                bit("pwmvsel1", 6, "rw"),
                                bit("pwmvsel0", 7, "rw") >>),
    group("limconf", 22, RW, << bit("rearm", 0, "rw"),
                                bit("rststatus", 1, "rw"),
                                enum("tpwth", 5, 4, "rw", {0, 1, 2, 3}),
                                enum("ipeak", 7, 6, "rw", {0, 1, 2, 3}) >>)
>>

\* A second invocation of the macro, using the arms the NCV6336 map leaves
\* out: an enumeration that does not name every bit pattern, a read-only
\* enumeration, the remaining access bits, a field on a register that is
\* not declared writable and two groups at one address.
SAMPLE_REGS == <<
    group("status", 1, READ + VOLATILE,
          << enum("code", 2, 0, "ro", {0, 1, 4}) >>),
    group("ctrl", 2, RW,
          << bit("en", 0, "rw"),
             enum("mode", 2, 1, "rw", {0, 1, 3}),
             raw("gain", 6, 4, "rw"),
             bit("hold", 7, "rw") >>),
    group("level", 8, READ + PRECIOUS, << raw("value", 3, 0, "rw") >>),
    group("fifo_w", 9, WRITE + WRITE_NO_INC, << raw("data", 7, 0, "wo") >>),
    group("fifo_r", 9, READ + READ_NO_INC, << raw("data", 7, 0, "ro") >>)
>>

Groups(d) == IF d = "ncv6336" THEN REGS ELSE IF d = "sample" THEN SAMPLE_REGS ELSE <<>>

\* with_max_register(): 0x16 for the NCV6336.
max_register(d) == IF d = "ncv6336" THEN 22 ELSE 9

Addrs(d) == {Groups(d)[g].addr : g \in DOMAIN Groups(d)}

\* The Fields enumeration and FieldsDesc: every field of every group, in
\* declaration order; a field's id() is its position.
RECURSIVE Flatten(_, _)
Flatten(gs, g) ==
    IF g > Len(gs) THEN <<>>
    ELSE [k \in DOMAIN gs[g].fields |->
             [reg |-> gs[g].addr, grp |-> gs[g].name, name |-> gs[g].fields[k].name,
              type |-> gs[g].fields[k].type, hi |-> gs[g].fields[k].hi,
              lo |-> gs[g].fields[k].lo, mode |-> gs[g].fields[k].mode,
              syms |-> gs[g].fields[k].syms]]
         \o Flatten(gs, g + 1)

REGS_FIELDS == Flatten(REGS, 1)

SAMPLE_FIELDS == Flatten(SAMPLE_REGS, 1)

FieldsDesc(d) ==
    IF d = "ncv6336" THEN REGS_FIELDS ELSE IF d = "sample" THEN SAMPLE_FIELDS ELSE <<>>

count(d) == Len(FieldsDesc(d))

FieldIds(d) == 1..count(d)

\* ---------------------------------------------- generated per field
\* regmap_field_bit!: reg_field() and mask().
bit_reg_field(f) == [reg |-> f.reg, lsb |-> f.lo, msb |-> f.lo + 1]

bit_mask(f) == genmask(f.lo, f.lo)

\* regmap_field_enum!: reg_field() and mask().
enum_reg_field(f) == [reg |-> f.reg, lsb |-> f.lo, msb |-> f.hi]

enum_mask(f) == genmask(f.hi, f.lo)

\* Faulty variant: the descriptor reaches one bit past the declared msb.
raw_reg_field_MsbPlusOne(f) == [reg |-> f.reg, lsb |-> f.lo, msb |-> f.hi + 1]

\* regmap_field_raw!: reg_field() and mask().
raw_reg_field(f) == [reg |-> f.reg, lsb |-> f.lo, msb |-> f.hi]

raw_mask(f) == genmask(f.hi, f.lo)

\* regmap_reg_field!: the descriptor of a field, as stored in FieldsDesc.
reg_field(f) ==
    IF f.type = "bit" THEN bit_reg_field(f)
    ELSE IF f.type = "enum" THEN enum_reg_field(f)
    ELSE raw_reg_field(f)

mask(f) ==
    IF f.type = "bit" THEN bit_mask(f)
    ELSE IF f.type = "enum" THEN enum_mask(f)
    ELSE raw_mask(f)

\* Which accessors the access mode generates (_ro and _wo arms).
HasRo(f) == f.mode \in {"ro", "rw"}
HasWo(f) == f.mode \in {"wo", "rw"}

\* Faulty variant: a pattern without a symbol decodes to some symbol.
try_from_Lenient(f, raw_value) ==
    IF raw_value \in f.syms THEN [res |-> "OK", val |-> raw_value]
    ELSE [res |-> "OK", val |-> CHOOSE v \in f.syms : TRUE]

\* impl TryFrom<c_uint> for the field's enumeration.
try_from(f, raw_value) ==
    IF raw_value \in f.syms THEN [res |-> "OK", val |-> raw_value]
    ELSE [res |-> "EINVAL", val |-> -1]

\* ------------------------------------------------ access predicates
\* Faulty variant: the access bit is tested, the address is not.
regmap_check_access_AnyAddr(type, access, reg, addr) ==
    Bits(type) \cap Bits(access) # {}

\* regmap_check_access!: `access::$type & $access > 0 && $reg == $addr`.
regmap_check_access(type, access, reg, addr) ==
    Bits(type) \cap Bits(access) # {} /\ reg = addr

\* The body shared by the six AccessOps functions: one check per group, in
\* declaration order, the first hit returns true; false at the end.
RECURSIVE AccessScan(_, _, _, _)
AccessScan(gs, g, type, reg) ==
    IF g > Len(gs) THEN FALSE
    ELSE IF regmap_check_access(type, gs[g].access, reg, gs[g].addr) THEN TRUE
    ELSE AccessScan(gs, g + 1, type, reg)

is_readable_reg(d, reg) == AccessScan(Groups(d), 1, READ, reg)
is_writeable_reg(d, reg) == AccessScan(Groups(d), 1, WRITE, reg)
is_volatile_reg(d, reg) == AccessScan(Groups(d), 1, VOLATILE, reg)
is_precious_reg(d, reg) == AccessScan(Groups(d), 1, PRECIOUS, reg)
is_writeable_noinc_reg(d, reg) == AccessScan(Groups(d), 1, WRITE_NO_INC, reg)
is_readable_noinc_reg(d, reg) == AccessScan(Groups(d), 1, READ_NO_INC, reg)

\* ------------------------------------------------------ the backend
\* Errors the backend reports: a failed bus transaction, a register not
\* declared accessible for the operation.
RegErrors == {"EIO"}

\* regmap_field_bulk_alloc(): the handle of field i carries the register,
\* the shift and the mask of the i-th descriptor of FieldsDesc.
regmap_field(d, i) ==
    LET rf == reg_field(FieldsDesc(d)[i])
    IN  [reg |-> rf.reg, shift |-> rf.lsb, mask |-> genmask(rf.msb, rf.lsb)]

\* regmap_field_read(): a masked, shifted read of the field's register.
regmap_field_read(d, rg, h, ok) ==
    LET fld == regmap_field(d, h)
    IN  IF ~ok \/ fld.reg > max_register(d) \/ ~is_readable_reg(d, fld.reg)
        THEN [res |-> "EIO", val |-> -1]
        ELSE [res |-> "OK",
              val |-> Num(Shr(Bits(rg[fld.reg]) \cap fld.mask, fld.shift))]

\* regmap_field_update_bits_base(): read-modify-write of the bits of
\* `m` that lie inside the field (`m` and `v` are words); the bus write is
\* skipped when nothing changes, unless forced.
regmap_field_update_bits_base(d, rg, h, m, v, force, ok) ==
    LET fld  == regmap_field(d, h)
        fm   == Shl(m, fld.shift) \cap fld.mask
        fv   == Shl(v, fld.shift)
        orig == Bits(rg[fld.reg])
        new  == Num(((orig \ fm) \cup (fv \cap fm)) \cap (0..(ValBits - 1)))
    IN  IF ~ok \/ fld.reg > max_register(d) \/ ~is_writeable_reg(d, fld.reg)
        THEN [res |-> "EIO", regs |-> rg, wrote |-> FALSE]
        ELSE [res |-> "OK", regs |-> [rg EXCEPT ![fld.reg] = new],
              wrote |-> force \/ new # rg[fld.reg]]

regmap_field_write(d, rg, h, v, ok) ==
    regmap_field_update_bits_base(d, rg, h, Word, Bits(v), FALSE, ok)

regmap_field_force_write(d, rg, h, v, ok) ==
    regmap_field_update_bits_base(d, rg, h, Word, Bits(v), TRUE, ok)

regmap_field_update_bits(d, rg, h, m, v, ok) ==
    regmap_field_update_bits_base(d, rg, h, m, Bits(v), FALSE, ok)

regmap_field_force_update_bits(d, rg, h, m, v, ok) ==
    regmap_field_update_bits_base(d, rg, h, m, Bits(v), TRUE, ok)

regmap_field_set_bits(d, rg, h, b, ok) ==
    regmap_field_update_bits_base(d, rg, h, b, b, FALSE, ok)

regmap_field_clear_bits(d, rg, h, b, ok) ==
    regmap_field_update_bits_base(d, rg, h, b, {}, FALSE, ok)

\* regmap_field_test_bits(): 1 when every bit of `b` is set in the field,
\* 0 when not, a negative errno when the read fails.
regmap_field_test_bits(d, rg, h, b, ok) ==
    LET r == regmap_field_read(d, rg, h, ok)
    IN  IF r.res # "OK" THEN r
        ELSE [res |-> "OK", val |-> IF b \subseteq Bits(r.val) THEN 1 ELSE 0]

\* ------------------------------------------------------- the accessors
\* Fields::index(): the handle stored at position `index`.
index(i) == i

\* Raw field: read().
raw_read(d, rg, i, ok) == regmap_field_read(d, rg, index(i), ok)

\* Raw field: test_bits(); to_result() keeps only the sign of the answer.
raw_test_bits(d, rg, i, b, ok) ==
    LET r == regmap_field_test_bits(d, rg, index(i), b, ok)
    IN  [res |-> r.res, val |-> -1]

\* Faulty variant: the value is shifted to the field's position by the
\* accessor and again by the backend.
raw_write_Shifted(d, rg, i, v, ok) ==
    regmap_field_write(d, rg, index(i), v * (2 ^ FieldsDesc(d)[i].lo), ok)

\* Raw field: write().
raw_write(d, rg, i, v, ok) == regmap_field_write(d, rg, index(i), v, ok)

\* Raw field: force_write().
raw_force_write(d, rg, i, v, ok) == regmap_field_force_write(d, rg, index(i), v, ok)

\* Raw field: update_bits() and force_update_bits().
raw_update_bits(d, rg, i, m, v, ok) ==
    regmap_field_update_bits(d, rg, index(i), m, v, ok)

raw_force_update_bits(d, rg, i, m, v, ok) ==
    regmap_field_force_update_bits(d, rg, index(i), m, v, ok)

\* Raw field: set_bits() and clear_bits().
raw_set_bits(d, rg, i, b, ok) == regmap_field_set_bits(d, rg, index(i), b, ok)

raw_clear_bits(d, rg, i, b, ok) == regmap_field_clear_bits(d, rg, index(i), b, ok)

\* Bit field: is_set(): Ok(val == 1).
is_set(d, rg, i, ok) ==
    LET r == regmap_field_read(d, rg, index(i), ok)
    IN  IF r.res # "OK" THEN r
        ELSE [res |-> "OK", val |-> IF r.val = 1 THEN 1 ELSE 0]

\* Bit field: set() / clear() write 1 / 0; force_set() / force_clear()
\* force-write them.
bit_write(d, rg, i, b, force, ok) ==
    IF force THEN regmap_field_force_write(d, rg, index(i), b, ok)
    ELSE regmap_field_write(d, rg, index(i), b, ok)

\* Enum field: read(): an errno of the backend, else try_from(val).
enum_read(d, rg, i, ok) ==
    LET r == regmap_field_read(d, rg, index(i), ok)
    IN  IF r.res # "OK" THEN r ELSE try_from(FieldsDesc(d)[i], r.val)

\* Enum field: write() / force_write() of `val as _`.
enum_write(d, rg, i, sym, force, ok) ==
    IF force THEN regmap_field_force_write(d, rg, index(i), sym, ok)
    ELSE regmap_field_write(d, rg, index(i), sym, ok)

\* ------------------------------------------- the regulator descriptor
\* MaybeUninit::<regulator_desc>::zeroed() of Desc::new().
Desc_new ==
    [enable_reg |-> 0, enable_mask |-> {}, enable_val |-> {}, disable_val |-> {},
     enable_is_inverted |-> FALSE,
     active_discharge_reg |-> 0, active_discharge_mask |-> {},
     active_discharge_on |-> {}, active_discharge_off |-> {},
     csel_reg |-> 0, csel_mask |-> {}, curr_table |-> <<>>, n_current_limits |-> 0,
     vsel_reg |-> 0, vsel_mask |-> {}, n_voltages |-> 0,
     min_uV |-> 0, uV_step |-> 0, linear_min_sel |-> 0]

with_enable(self, reg, m, en_val, dis_val) ==
    [self EXCEPT !.enable_reg = reg, !.enable_mask = m,
                 !.enable_val = en_val, !.disable_val = dis_val]

with_active_discharge(self, reg, m, on, off) ==
    [self EXCEPT !.active_discharge_on = on, !.active_discharge_off = off,
                 !.active_discharge_reg = reg, !.active_discharge_mask = m]

\* Sets the register, the mask and the table pointer; the number of
\* entries (n_current_limits) is left as Desc::new() zeroed it.
with_csel(self, reg, m, table) ==
    [self EXCEPT !.csel_reg = reg, !.csel_mask = m, !.curr_table = table]

with_linear_mapping(self, reg, m, min_uv, uv_step, n_voltages, linear_min_sel) ==
    [self EXCEPT !.vsel_reg = reg, !.vsel_mask = m, !.n_voltages = n_voltages,
                 !.min_uV = min_uv, !.uV_step = uv_step,
                 !.linear_min_sel = linear_min_sel]

\* register::<group>::addr() and register::<group>::<field> of REGS.
addr(grp) == (CHOOSE g \in {REGS[k] : k \in DOMAIN REGS} : g.name = grp).addr

Field(grp, name) ==
    LET fs == REGS_FIELDS
    IN  fs[CHOOSE i \in DOMAIN fs : fs[i].grp = grp /\ fs[i].name = name]

NCV6336_DESC ==
    with_linear_mapping(
        with_enable(
            with_csel(
                with_active_discharge(Desc_new, addr("pgood"),
                    mask(Field("pgood", "dischg")), mask(Field("pgood", "dischg")), {}),
                addr("limconf"), mask(Field("limconf", "ipeak")),
                <<3500000, 4000000, 4500000, 5000000>>),
            addr("progvsel0"), mask(Field("progvsel0", "envsel0")),
            mask(Field("progvsel0", "envsel0")), {}),
        addr("progvsel0"), mask(Field("progvsel0", "voutvsel0")),
        600000, 6250, 128, 0)

\* ---------------------------------------- the regulator core helpers
\* regmap_update_bits(): read-modify-write of the bits of `m` in a register.
regmap_update_bits(d, rg, reg, m, v, ok) ==
    LET orig == Bits(rg[reg])
        new  == Num(((orig \ m) \cup (v \cap m)) \cap (0..(ValBits - 1)))
    IN  IF ~ok \/ reg > max_register(d) \/ ~is_writeable_reg(d, reg)
        THEN [res |-> "EIO", regs |-> rg, wrote |-> FALSE]
        ELSE [res |-> "OK", regs |-> [rg EXCEPT ![reg] = new],
              wrote |-> new # rg[reg]]

\* regulator_list_voltage_linear(): -EINVAL (-22) for a selector at or
\* beyond the count, else min_uV + uV_step * (selector - linear_min_sel).
regulator_list_voltage_linear(desc, selector) ==
    IF selector >= desc.n_voltages THEN -22
    ELSE IF selector < desc.linear_min_sel THEN 0
    ELSE desc.min_uV + desc.uV_step * (selector - desc.linear_min_sel)

\* The current table as the core sees it: n_current_limits entries.
CurrTable(desc) ==
    SubSeq(desc.curr_table, 1,
           IF desc.n_current_limits < Len(desc.curr_table)
           THEN desc.n_current_limits ELSE Len(desc.curr_table))

\* The selector of the largest table entry that is <= max_ua, -1 if none.
CurrentSelector(desc, min_ua, max_ua) ==
    LET t    == CurrTable(desc)
        fits == {i \in DOMAIN t : t[i] <= max_ua}
    IN  IF fits = {} THEN -1
        ELSE (CHOOSE i \in fits : \A j \in fits : t[j] <= t[i]) - 1

Lowest(m) == CHOOSE i \in m : \A j \in m : i <= j

\* regulator_set_current_limit_regmap(): the selector is written to the
\* csel field; unsupported when no entry fits.
regulator_set_current_limit_regmap(d, rg, desc, min_ua, max_ua, ok) ==
    LET sel == CurrentSelector(desc, min_ua, max_ua)
    IN  IF sel < 0 THEN [res |-> "ENOTSUPP", regs |-> rg, wrote |-> FALSE]
        ELSE regmap_update_bits(d, rg, desc.csel_reg, desc.csel_mask,
                                Shl(Bits(sel), Lowest(desc.csel_mask)), ok)

\* Error::from_errno() of the values the helpers return.
from_errno(ret) == IF ret = -22 THEN "EINVAL" ELSE "EIO"

\* Faulty variant: the sign of the return value is not looked at.
list_voltage_linear_Unchecked(desc, selector) ==
    [res |-> "OK", val |-> regulator_list_voltage_linear(desc, selector)]

\* RegulatorDev::list_voltage_linear(): Err for a negative return value.
list_voltage_linear(desc, selector) ==
    LET ret == regulator_list_voltage_linear(desc, selector)
    IN  IF ret < 0 THEN [res |-> from_errno(ret), val |-> -1]
        ELSE [res |-> "OK", val |-> ret]

\* Driver::list_voltage() of the NCV6336.
list_voltage(selector) == list_voltage_linear(NCV6336_DESC, selector)

\* RegmapHelpers::set_current_limit_regmap(), called by
\* Driver::set_current_limit() of the NCV6336.
set_current_limit(d, rg, min_ua, max_ua, ok) ==
    regulator_set_current_limit_regmap(d, rg, NCV6336_DESC, min_ua, max_ua, ok)

\* -------------------------------------------------------------- inputs
RawInputs == (0..MaxRawInput) \cup {2 ^ (ValBits - 1) - 1, 2 ^ (ValBits - 1)}

BitInputs == {Word, {0}, 1..2, {0, 2}}

UpdateInputs == {0, 5, 2 ^ ValBits - 1}

HwValues == {85, 170, 255}

SelectorInputs == 0..(NCV6336_DESC.n_voltages + 2)

MinInputs == {0, 3600000}

MaxInputs == {3000000, 3500000, 4200000, 4999999, 5000000, 6000000}

AccessTypes == {READ, WRITE, VOLATILE, PRECIOUS, WRITE_NO_INC, READ_NO_INC}

AddrInputs == 0..24

\* ------------------------------------------------------- bookkeeping
NoWrite == [f |-> 0, v |-> 0]

Rop(op, f, arg, m, force, res, val, reg, before, wrote) ==
    [op |-> op, f |-> f, arg |-> arg, mask |-> m, force |-> force, res |-> res,
     val |-> val, reg |-> reg, before |-> before, wrote |-> wrote]

Idle == Rop("none", 0, 0, {}, FALSE, "OK", -1, 0, 0, FALSE)

\* An operation that may write the register of field i; `keep` is what is
\* then known of the register's last field write.
Modify(op, i, arg, m, force, r, reg, keep) ==
    /\ rop = Idle
    /\ rops < MaxRegOps
    /\ regs' = r.regs
    /\ rop' = Rop(op, i, arg, m, force, r.res, -1, reg, regs[reg], r.wrote)
    /\ lastw' = IF r.res = "OK" THEN [lastw EXCEPT ![reg] = keep] ELSE lastw
    /\ rops' = rops + 1
    /\ UNCHANGED <<pvars, decl, focus, ftab, live>>

\* An operation that only reads.
Observe(op, i, arg, m, r, reg, before) ==
    /\ rop = Idle
    /\ rop' = Rop(op, i, arg, m, FALSE, r.res, r.val, reg, before, FALSE)
    /\ UNCHANGED <<pvars, decl, focus, regs, lastw, ftab, live, rops>>

\* The accessor of field i can be called: the table is bound, the macro
\* generated the accessor for this field and the field lies in the register
\* this run addresses (an accessor reads and writes the register of its own
\* field only, so the runs over the registers are independent).
Callable(i, type, wo) ==
    /\ ftab = "bound"
    /\ i \in FieldIds(decl)
    /\ FieldsDesc(decl)[i].reg = focus
    /\ FieldsDesc(decl)[i].type = type
    /\ IF wo THEN HasWo(FieldsDesc(decl)[i]) ELSE HasRo(FieldsDesc(decl)[i])

RegOf(i) == FieldsDesc(decl)[i].reg

\* ------------------------------------------------ the panel, unused
PanelUnused ==
    /\ pdata = [panel_on_cmds |-> <<>>, panel_off_cmds |-> <<>>]
    /\ has_reset = FALSE
    /\ prepared = FALSE
    /\ mode_flags = VIDEO + VIDEO_BURST
    /\ reset_value = 0
    /\ rail_net = [r \in Rails |-> 0]
    /\ lock = 0
    /\ pc = [c \in Callers |-> "idle"]
    /\ guard_v = [c \in Callers |-> <<>>]
    /\ guard_regs = [c \in Callers |-> FALSE]
    /\ guard_reset = [c \in Callers |-> FALSE]
    /\ idx = [c \in Callers |-> 0]
    /\ err = [c \in Callers |-> "OK"]
    /\ log = <<>>
    /\ call = [by |-> 0, op |-> "none", ret |-> "none"]
    /\ pre = Snapshot
    /\ failed = {}
    /\ fail_at = "none"
    /\ calls = 0

\* ------------------------------------------------------------- RegInit
\* A device built from one of the declarations, before probe() binds the
\* fields; the registers hold whatever the chip holds.
RegInit ==
    /\ PanelUnused
    /\ decl \in {"ncv6336", "sample"}
    /\ focus \in Addrs(decl)
    /\ regs \in {[a \in Addrs(decl) |-> v] : v \in {0, 255}}
    /\ lastw = [a \in Addrs(decl) |-> NoWrite]
    /\ ftab = "unbound"
    /\ live = {}
    /\ rop = Idle
    /\ rops = 0

\* --------------------------------------------------- the Fields table
\* Regmap::alloc_fields(): regmap_field_bulk_alloc() allocates one handle
\* per descriptor or fails without allocating any.
AllocFields ==
    /\ rop = Idle
    /\ ftab = "unbound"
    /\ \E ok \in BOOLEAN :
        /\ ftab' = IF ok THEN "bound" ELSE "unbound"
        /\ live' = IF ok THEN FieldIds(decl) ELSE {}
        /\ rop' = Rop("alloc_fields", 0, 0, {}, FALSE,
                      IF ok THEN "OK" ELSE "ENOMEM", -1, 0, 0, FALSE)
    /\ UNCHANGED <<pvars, decl, focus, regs, lastw, rops>>

\* Drop of Fields<N>: the type has no Drop implementation, so the array of
\* raw handle pointers is forgotten and no handle is released.
HandlesAfterDrop(h) == h

\* Data::device_remove() revokes the registrations, which drops the
\* Registrations value and with it the Fields table.
DropFields ==
    /\ rop = Idle
    /\ ftab = "bound"
    /\ ftab' = "dropped"
    /\ live' = HandlesAfterDrop(live)
    /\ rop' = Rop("drop_fields", 0, 0, {}, FALSE, "OK", -1, 0, 0, FALSE)
    /\ UNCHANGED <<pvars, decl, focus, regs, lastw, rops>>

\* ------------------------------------------------------ raw accessors
RawRead(i) ==
    /\ Callable(i, "raw", FALSE)
    /\ \E ok \in BOOLEAN :
        Observe("read", i, 0, {}, raw_read(decl, regs, i, ok), RegOf(i), regs[RegOf(i)])

RawTestBits(i) ==
    /\ Callable(i, "raw", FALSE)
    /\ \E b \in BitInputs, ok \in BOOLEAN :
        /\ ok \/ b = Word
        /\ Observe("test_bits", i, 0, b, raw_test_bits(decl, regs, i, b, ok),
                RegOf(i), regs[RegOf(i)])

RawWrite(i) ==
    /\ Callable(i, "raw", TRUE)
    /\ \E v \in RawInputs, ok \in BOOLEAN :
        /\ ok \/ v = 0
        /\ Modify("write", i, v, {}, FALSE, raw_write(decl, regs, i, v, ok),
               RegOf(i), [f |-> i, v |-> v])

RawForceWrite(i) ==
    /\ Callable(i, "raw", TRUE)
    /\ \E v \in RawInputs, ok \in BOOLEAN :
        /\ ok \/ v = 0
        /\ Modify("force_write", i, v, {}, TRUE, raw_force_write(decl, regs, i, v, ok),
               RegOf(i), [f |-> i, v |-> v])

RawUpdateBits(i) ==
    /\ Callable(i, "raw", TRUE)
    /\ \E m \in BitInputs, v \in UpdateInputs, ok \in BOOLEAN :
        /\ ok \/ (v = 0 /\ m = Word)
        /\ Modify("update_bits", i, v, m, FALSE, raw_update_bits(decl, regs, i, m, v, ok),
               RegOf(i), NoWrite)

RawForceUpdateBits(i) ==
    /\ Callable(i, "raw", TRUE)
    /\ \E m \in BitInputs, v \in UpdateInputs, ok \in BOOLEAN :
        /\ ok \/ (v = 0 /\ m = Word)
        /\ Modify("force_update_bits", i, v, m, TRUE,
               raw_force_update_bits(decl, regs, i, m, v, ok), RegOf(i), NoWrite)

RawSetBits(i) ==
    /\ Callable(i, "raw", TRUE)
    /\ \E b \in BitInputs, ok \in BOOLEAN :
        /\ ok \/ b = Word
        /\ Modify("set_bits", i, 0, b, FALSE, raw_set_bits(decl, regs, i, b, ok),
               RegOf(i), NoWrite)

RawClearBits(i) ==
    /\ Callable(i, "raw", TRUE)
    /\ \E b \in BitInputs, ok \in BOOLEAN :
        /\ ok \/ b = Word
        /\ Modify("clear_bits", i, 0, b, FALSE, raw_clear_bits(decl, regs, i, b, ok),
               RegOf(i), NoWrite)

\* ------------------------------------------------------ bit accessors
BitIsSet(i) ==
    /\ Callable(i, "bit", FALSE)
    /\ \E ok \in BOOLEAN :
        Observe("is_set", i, 0, {}, is_set(decl, regs, i, ok), RegOf(i), regs[RegOf(i)])

\* set(), clear(), force_set(), force_clear().
BitWrite(i) ==
    /\ Callable(i, "bit", TRUE)
    /\ \E b \in {0, 1}, force \in BOOLEAN, ok \in BOOLEAN :
        Modify(IF b = 1 THEN "set" ELSE "clear", i, b, {}, force,
               bit_write(decl, regs, i, b, force, ok), RegOf(i), NoWrite)

\* ----------------------------------------------------- enum accessors
EnumRead(i) ==
    /\ Callable(i, "enum", FALSE)
    /\ \E ok \in BOOLEAN :
        Observe("enum_read", i, 0, {}, enum_read(decl, regs, i, ok),
                RegOf(i), regs[RegOf(i)])

\* write() and force_write() of a declared symbol.
EnumWrite(i) ==
    /\ Callable(i, "enum", TRUE)
    /\ \E sym \in FieldsDesc(decl)[i].syms, force \in BOOLEAN, ok \in BOOLEAN :
        Modify("enum_write", i, sym, {}, force,
               enum_write(decl, regs, i, sym, force, ok), RegOf(i),
               [f |-> i, v |-> sym])

\* ------------------------------------------------- the chip, out of band
\* The hardware changes a register behind the driver (reset pulse, fault).
HwChange ==
    /\ rop = Idle
    /\ ftab = "bound"
    /\ rops < MaxRegOps
    /\ \E a \in {focus}, v \in HwValues :
        /\ regs' = [regs EXCEPT ![a] = v]
        /\ lastw' = [lastw EXCEPT ![a] = NoWrite]
        /\ rop' = Rop("hw_change", 0, v, {}, FALSE, "OK", -1, a, regs[a], TRUE)
    /\ rops' = rops + 1
    /\ UNCHANGED <<pvars, decl, focus, ftab, live>>

\* ------------------------------------------- the regmap core's queries
\* Config::<T>::*_reg_callback(): the core asks AccessOps about a register.
AccessQuery ==
    \E type \in AccessTypes, reg \in AddrInputs :
        LET ans == IF type = READ THEN is_readable_reg(decl, reg)
                   ELSE IF type = WRITE THEN is_writeable_reg(decl, reg)
                   ELSE IF type = VOLATILE THEN is_volatile_reg(decl, reg)
                   ELSE IF type = PRECIOUS THEN is_precious_reg(decl, reg)
                   ELSE IF type = WRITE_NO_INC THEN is_writeable_noinc_reg(decl, reg)
                   ELSE is_readable_noinc_reg(decl, reg)
        IN  Observe("access", 0, type, {}, [res |-> "OK", val |-> IF ans THEN 1 ELSE 0],
                    reg, 0)

\* ------------------------------------------- the regulator operations
\* The framework calls the operation table of a registered NCV6336.
Registered == decl = "ncv6336" /\ ftab = "bound"

ListVoltage ==
    /\ decl = "ncv6336"
    /\ \E selector \in SelectorInputs :
        Observe("list_voltage", 0, selector, {}, list_voltage(selector), 0, 0)

SetCurrentLimit ==
    /\ Registered
    /\ focus = NCV6336_DESC.csel_reg
    /\ \E min_ua \in MinInputs, max_ua \in MaxInputs, ok \in BOOLEAN :
        /\ ok \/ (min_ua = 0 /\ max_ua = 5000000)
        /\ Modify("set_current_limit", 0, <<min_ua, max_ua>>, {}, FALSE,
               set_current_limit(decl, regs, min_ua, max_ua, ok),
               NCV6336_DESC.csel_reg, NoWrite)

\* The call returns to its caller; the next operation can start.
Return ==
    /\ rop # Idle
    /\ rop' = Idle
    /\ UNCHANGED <<pvars, decl, focus, regs, lastw, ftab, live, rops>>

\* ------------------------------------------------------------- RegNext
RegNext ==
    \/ Return
    \/ AllocFields
    \/ DropFields
    \/ HwChange
    \/ SetCurrentLimit
    \/ \E i \in FieldIds(decl) : RawRead(i)
    \/ \E i \in FieldIds(decl) : RawTestBits(i)
    \/ \E i \in FieldIds(decl) : RawWrite(i)
    \/ \E i \in FieldIds(decl) : RawForceWrite(i)
    \/ \E i \in FieldIds(decl) : RawUpdateBits(i)
    \/ \E i \in FieldIds(decl) : RawForceUpdateBits(i)
    \/ \E i \in FieldIds(decl) : RawSetBits(i)
    \/ \E i \in FieldIds(decl) : RawClearBits(i)
    \/ \E i \in FieldIds(decl) : BitIsSet(i)
    \/ \E i \in FieldIds(decl) : BitWrite(i)
    \/ \E i \in FieldIds(decl) : EnumRead(i)
    \/ \E i \in FieldIds(decl) : EnumWrite(i)

RegSpec == RegInit /\ [][RegNext]_vars

\* The functions that read no register: the access predicates and the
\* voltage list, applied to every input.
FnNext ==
    \/ Return
    \/ AccessQuery
    \/ ListVoltage

FnSpec == RegInit /\ [][FnNext]_vars

\* ======================================================================
\* Properties of the register fields and of the regulator operations
\* ======================================================================

\* The field of the last operation, as declared.
OpField == FieldsDesc(decl)[rop.f]

\* The bit positions the declaration gives a field.
Declared(f) == f.lo..f.hi

Outside(n, f) == Bits(n) \ Declared(f)

\* The value a register holds in the declared bits of a field.
FieldValue(n, f) == Num(Shr(Bits(n) \cap Declared(f), f.lo))

Fits(v, f) == v < 2 ^ (f.hi - f.lo + 1)

\* The register of the last operation, now.
After == regs[rop.reg]

Changed(a, b) == (Bits(a) \ Bits(b)) \cup (Bits(b) \ Bits(a))

\* C11: a Bit field at position p has the descriptor lsb = msb = p; a
\* successful set/clear/force_set/force_clear changes at most bit p of the
\* register; is_set() answers true exactly when bit p is 1.
C11_BitFieldFrame ==
    /\ rop.op \in {"set", "clear"} =>
          /\ reg_field(OpField).lsb = OpField.lo
          /\ reg_field(OpField).msb = OpField.lo
          /\ Changed(rop.before, After) \subseteq {OpField.lo}
    /\ (rop.op = "is_set" /\ rop.res = "OK") =>
          (rop.val = 1 <=> OpField.lo \in Bits(rop.before))

\* C12: for every declared field, mask() is the run of 1-bits from lsb to
\* msb of the field's descriptor reg_field(): msb - lsb + 1 bits, the lowest
\* at lsb.
C12_MaskMatchesDescriptor ==
    ftab = "bound" =>
        \A i \in FieldIds(decl) :
            LET f  == FieldsDesc(decl)[i]
                rf == reg_field(f)
            IN  /\ Cardinality(mask(f)) = rf.msb - rf.lsb + 1
                /\ \A b \in mask(f) : rf.lsb <= b /\ b <= rf.msb
                /\ rf.lsb \in mask(f)

\* C13: a value that fits a read-write Raw field, once written, is what
\* read() returns as long as the register was not modified otherwise; the
\* write leaves the other bits of the register as they were.
C13_RawRoundTrip ==
    /\ (/\ rop.op = "read" /\ rop.res = "OK"
        /\ lastw[rop.reg].f = rop.f
        /\ Fits(lastw[rop.reg].v, OpField))
           => rop.val = lastw[rop.reg].v
    /\ (/\ rop.op \in {"write", "force_write"} /\ rop.res = "OK"
        /\ Fits(rop.arg, OpField))
           => /\ Outside(After, OpField) = Outside(rop.before, OpField)
              /\ FieldValue(After, OpField) = rop.arg

C13_Witness ==
    /\ rop.op = "read" /\ rop.res = "OK"
    /\ lastw[rop.reg].f = rop.f
    /\ lastw[rop.reg].v = 5
    /\ rop.val = 5
    /\ OpField.lo > 0
    /\ Outside(rop.before, OpField) # {}

\* C14: write(v) of a value that does not fit the Raw field fails, issues
\* no bus write and leaves the register unchanged.
C14_TooWideRejected ==
    (rop.op = "write" /\ ~Fits(rop.arg, OpField)) =>
        /\ rop.res # "OK"
        /\ ~rop.wrote
        /\ After = rop.before

\* C15: update_bits() and force_update_bits() of a Raw field change no bit
\* of the register outside the field's declared range, whatever the mask.
C15_UpdateBitsFrame ==
    rop.op \in {"update_bits", "force_update_bits"} =>
        Outside(After, OpField) = Outside(rop.before, OpField)

C15_Witness ==
    /\ rop.op = "update_bits" /\ rop.res = "OK"
    /\ rop.mask = Word
    /\ Word \ Declared(OpField) # {}
    /\ Outside(rop.before, OpField) # {}
    /\ After # rop.before

\* C16: an Enum field's read() returns the symbol last written; when the
\* field's bits hold a pattern no symbol has, a read whose bus transfer
\* succeeded returns EINVAL, and otherwise the symbol of the pattern.
C16_EnumRoundTripAndDecode ==
    (rop.op = "enum_read" /\ rop.res # "EIO") =>
        /\ lastw[rop.reg].f = rop.f =>
              (rop.res = "OK" /\ rop.val = lastw[rop.reg].v)
        /\ IF FieldValue(rop.before, OpField) \in OpField.syms
           THEN rop.res = "OK" /\ rop.val = FieldValue(rop.before, OpField)
           ELSE rop.res = "EINVAL"

C16_Witness ==
    /\ rop.op = "enum_read"
    /\ rop.res = "EINVAL"
    /\ FieldValue(rop.before, OpField) \notin OpField.syms
    /\ rops > 0

\* The groups of a declaration at an address, and whether one of them
\* carries an access bit.
Carries(d, type, reg) ==
    \E g \in DOMAIN Groups(d) :
        Groups(d)[g].addr = reg /\ (Groups(d)[g].access \div type) % 2 = 1

\* C17: each of the six predicates is true of a register exactly when a
\* group declared at that address carries the access bit; for the NCV6336,
\* 0x03..0x05 are readable only, 0x10, 0x11, 0x12, 0x14, 0x16 readable and
\* writable, nothing is volatile, precious or no-increment.
C17_AccessPredicates ==
    rop.op = "access" =>
        /\ rop.val = 1 <=> Carries(decl, rop.arg, rop.reg)
        /\ decl = "ncv6336" =>
              (rop.val = 1 <=>
                  \/ rop.arg = READ /\ rop.reg \in {3, 4, 5, 16, 17, 18, 20, 22}
                  \/ rop.arg = WRITE /\ rop.reg \in {16, 17, 18, 20, 22})

C17_Witness ==
    /\ rop.op = "access"
    /\ decl = "ncv6336"
    /\ rop.arg = READ
    /\ rop.reg = 5
    /\ rop.val = 1

\* C18: once the Fields table has been dropped, no backend handle that was
\* allocated for it is still allocated.
C18_HandlesReleased == ftab = "dropped" => live = {}

\* C19: list_voltage(s) is 600000 + 6250 * s for s in 0..127 and fails for
\* s >= 128; a success is never negative.
C19_ListVoltage ==
    rop.op = "list_voltage" =>
        /\ IF rop.arg <= 127
           THEN rop.res = "OK" /\ rop.val = 600000 + 6250 * rop.arg
           ELSE rop.res # "OK"
        /\ rop.res = "OK" => rop.val >= 0
        /\ (rop.arg = 0 /\ rop.res = "OK") => rop.val = 600000
        /\ (rop.arg = 127 /\ rop.res = "OK") => rop.val = 1393750

C19_Witness ==
    /\ rop.op = "list_voltage"
    /\ rop.arg = 128
    /\ rop.res = "EINVAL"

\* C20: set_current_limit(min_ua, max_ua) selects the largest entry of
\* [3500000, 4000000, 4500000, 5000000] that is <= max_ua and writes its
\* index to limconf.ipeak; it fails when no entry is <= max_ua.
C20_SetCurrentLimit ==
    (rop.op = "set_current_limit" /\ rop.res # "EIO") =>
        LET table == <<3500000, 4000000, 4500000, 5000000>>
            fits  == {k \in DOMAIN table : table[k] <= rop.arg[2]}
        IN  IF fits = {} THEN rop.res # "OK"
            ELSE /\ rop.res = "OK"
                 /\ FieldValue(After, Field("limconf", "ipeak")) = Cardinality(fits) - 1

\* ======================================================================
\* The panel between calls
\* ======================================================================
\* No call is inside prepare() or unprepare(): the mutex is free.
BetweenCalls == lock = 0

\* C27 (as claimed): between calls, each rail holds one enable of the driver
\* (successful enable() calls minus disable() calls issued) when prepared is
\* true and none when it is false, prepare() on a prepared panel included.
C27_RailBalance ==
    BetweenCalls =>
        \A r \in Rails : rail_net[r] = (IF prepared THEN 1 ELSE 0)

\* C28 (as claimed): whenever prepared is true between calls, the reset line
\* (if present) is at the deasserted level 0 and the LPM flag is set.
C28_PreparedOutOfReset ==
    (BetweenCalls /\ prepared) =>
        /\ has_reset => reset_value = 0
        /\ HasFlag(mode_flags, 2048)

\* ======================================================================
\* Progress of prepare() and unprepare()
\* ======================================================================
\* The framework may call at any time and as often as it likes. A further
\* prepare() is started only while no rail holds MaxCalls enables, which
\* keeps the enable counts finite; unprepare() is always possible.
LiveCallPrepare(c) ==
    /\ pc[c] = "idle"
    /\ UNCHANGED rvars
    /\ \A r \in Rails : rail_net[r] < MaxCalls
    /\ pc' = [pc EXCEPT ![c] = "p_lock"]
    /\ UNCHANGED <<pdata, has_reset, prepared, mode_flags, reset_value, rail_net,
                   lock, guard_v, guard_regs, guard_reset, idx, err, log, call,
                   pre, failed, fail_at, calls>>

LiveCallUnprepare(c) ==
    /\ pc[c] = "idle"
    /\ UNCHANGED rvars
    /\ pc' = [pc EXCEPT ![c] = "u_lock"]
    /\ UNCHANGED <<pdata, has_reset, prepared, mode_flags, reset_value, rail_net,
                   lock, guard_v, guard_regs, guard_reset, idx, err, log, call,
                   pre, failed, fail_at, calls>>

\* data.lock() of caller c, in prepare() or in unprepare().
LockStep(c) == PrepareLock(c) \/ UnprepareLock(c)

\* A step of caller c past its lock(): every bus, GPIO, rail and sleep call
\* returns, and so does every drop of a guard.
BodyStep(c) ==
    \/ PrepareAssertReset(c)
    \/ PrepareAllocGuard(c)
    \/ PrepareEnable(c)
    \/ PrepareReleaseReset(c)
    \/ PrepareSoftReset(c)
    \/ PrepareOnCmd(c)
    \/ PrepareExitSleep(c)
    \/ PrepareDisplayOn(c)
    \/ PrepareCommit(c)
    \/ PrepareDropReset(c)
    \/ PrepareDropRegulators(c)
    \/ PrepareReturnErr(c)
    \/ UnprepareCheck(c)
    \/ UnprepareDisplayOff(c)
    \/ UnprepareEnterSleep(c)
    \/ UnprepareOffCmd(c)
    \/ UnprepareAssertReset(c)
    \/ UnprepareDisable(c)
    \/ UnprepareFinish(c)

LiveNext ==
    \E c \in Callers :
        \/ LiveCallPrepare(c)
        \/ LiveCallUnprepare(c)
        \/ LockStep(c)
        \/ BodyStep(c)

\* Weak fairness of every caller: a thread that can run does run.
LiveFair == \A c \in Callers : WF_vars(LockStep(c)) /\ WF_vars(BodyStep(c))

LiveSpec == Init /\ [][LiveNext]_vars /\ LiveFair

Blocked(c) == pc[c] \in {"p_lock", "u_lock"}

\* The mutex passes to a waiter: a caller that finds the lock free again and
\* again does take it.
LockHandOff == \A c \in Callers : SF_vars(LockStep(c))

Returns == \A c \in Callers : InBody(c) ~> (pc[c] = "idle" /\ lock # c)
Enters == \A c \in Callers : Blocked(c) ~> InBody(c)

Modes == {"Invalid", "Fast", "Normal", "Idle", "Standby"}

\* i32::MIN, and the microvolts the framework may pass.
MinI32 == -2147483647 - 1

UvInputs == {MinI32, 0, 599999, 600000, 600001, 1393751, 1400000, 2147483647}

VselInputs == {0, 100, 127, 128, 129, 255}

\* regmap_fields!: the position of a named field in the Fields table.
id(grp, name) ==
    LET fs == REGS_FIELDS
    IN  CHOOSE i \in DOMAIN fs : fs[i].grp = grp /\ fs[i].name = name

\* RevocableMutex::try_write(): the guard while the registrations have not
\* been revoked, None from then on.
try_write(t) == t = "bound"

\* Data::registrations(): Some(guard) or None.
registrations(t) == try_write(t)

\* The result of an operation: its Result, the registers after it, the value
\* it returns and the number of accessor calls it made.
NoAccess(rg, e) == [res |-> e, regs |-> rg, val |-> -1, io |-> 0]
Accessed(r, n) == [res |-> r.res, regs |-> r.regs, val |-> -1, io |-> n]

\* Faulty variant: a mode other than Fast is taken for Normal.
set_mode_Coerced(d, rg, t, mode, ok) ==
    IF ~registrations(t) THEN NoAccess(rg, "EINVAL")
    ELSE Accessed(bit_write(d, rg, id("command", "pwmvsel0"),
                            IF mode = "Fast" THEN 1 ELSE 0, FALSE, ok), 1)

\* Driver::set_mode(): Normal clears command.pwmvsel0, Fast sets it, any
\* other mode is ENOTSUPP.
set_mode(d, rg, t, mode, ok) ==
    IF ~registrations(t) THEN NoAccess(rg, "EINVAL")
    ELSE IF mode = "Normal"
    THEN Accessed(bit_write(d, rg, id("command", "pwmvsel0"), 0, FALSE, ok), 1)
    ELSE IF mode = "Fast"
    THEN Accessed(bit_write(d, rg, id("command", "pwmvsel0"), 1, FALSE, ok), 1)
    ELSE NoAccess(rg, "ENOTSUPP")

\* Driver::get_mode(): Fast / Normal as pwmvsel0 is set or not, Invalid when
\* the read fails or the registrations are gone.
get_mode(d, rg, t, ok) ==
    IF registrations(t)
    THEN LET v == is_set(d, rg, id("command", "pwmvsel0"), ok)
         IN  [res |-> "OK", regs |-> rg, io |-> 1,
              val |-> IF v.res # "OK" THEN "Invalid"
                      ELSE IF v.val = 1 THEN "Fast" ELSE "Normal"]
    ELSE [res |-> "OK", regs |-> rg, io |-> 0, val |-> "Invalid"]

\* i32 subtraction a - b for b > 0: the difference, wrapped around when it
\* lies below i32::MIN.
wrapping_sub(a, b) ==
    IF a < MinI32 + b THEN ((a + 2147483647) + 1) + ((2147483647 - b) + 1)
    ELSE a - b

\* i32 division and remainder: the quotient is rounded towards zero.
i32_div(a, b) == IF a >= 0 THEN a \div b ELSE -((-a) \div b)
i32_rem(a, b) == a - i32_div(a, b) * b

\* Driver::set_suspend_voltage(): the selector is computed first (the
\* subtraction panics on overflow in a build with overflow checks and wraps
\* in one without), then written to progvsel1.voutvsel1 as a c_uint.
set_suspend_voltage(d, rg, t, uv, checks, ok) ==
    IF checks /\ uv < MinI32 + 600000
    THEN NoAccess(rg, "panic")
    ELSE LET quot == i32_div(wrapping_sub(uv, 600000), 6250)
             rem  == i32_rem(wrapping_sub(uv, 600000), 6250)
             selector == IF rem > 0 THEN quot + 1 ELSE quot
         IN  IF ~registrations(t) THEN NoAccess(rg, "EINVAL")
             ELSE Accessed(raw_write(d, rg, id("progvsel1", "voutvsel1"),
                                     selector, ok), 1)

\* Two bit accessors in a row, the second only when the first succeeded (`?`).
Both(d, rg, i1, b1, ok1, i2, b2, ok2) ==
    LET r1 == bit_write(d, rg, i1, b1, FALSE, ok1)
    IN  IF r1.res # "OK" THEN Accessed(r1, 1)
        ELSE Accessed(bit_write(d, r1.regs, i2, b2, FALSE, ok2), 2)

\* Driver::set_suspend_enable(): envsel1::set()?; vselgt::clear().
set_suspend_enable(d, rg, t, ok1, ok2) ==
    IF ~registrations(t) THEN NoAccess(rg, "EINVAL")
    ELSE Both(d, rg, id("progvsel1", "envsel1"), 1, ok1,
              id("command", "vselgt"), 0, ok2)

\* Driver::set_suspend_disable(): envsel1::clear()?; vselgt::set().
set_suspend_disable(d, rg, t, ok1, ok2) ==
    IF ~registrations(t) THEN NoAccess(rg, "EINVAL")
    ELSE Both(d, rg, id("progvsel1", "envsel1"), 0, ok1,
              id("command", "vselgt"), 1, ok2)

\* Driver::set_suspend_mode(): as set_mode(), on command.pwmvsel1.
set_suspend_mode(d, rg, t, mode, ok) ==
    IF ~registrations(t) THEN NoAccess(rg, "EINVAL")
    ELSE IF mode = "Normal"
    THEN Accessed(bit_write(d, rg, id("command", "pwmvsel1"), 0, FALSE, ok), 1)
    ELSE IF mode = "Fast"
    THEN Accessed(bit_write(d, rg, id("command", "pwmvsel1"), 1, FALSE, ok), 1)
    ELSE NoAccess(rg, "ENOTSUPP")

\* ------------------------------------------- helpers of the regulator core
\* Error::to_errno() and to_result().
to_errno(e) == IF e = "EINVAL" THEN -22 ELSE IF e = "ENOTSUPP" THEN -524 ELSE -5
to_result(ret) == IF ret < 0 THEN from_errno(ret) ELSE "OK"

\* regulator_set_voltage_sel_regmap(): a selector at or beyond n_voltages
\* is rejected (-EINVAL); else it is written to the vsel field.
regulator_set_voltage_sel_regmap(d, rg, desc, sel, ok) ==
    IF sel >= desc.n_voltages THEN [ret |-> -22, regs |-> rg]
    ELSE LET r == regmap_update_bits(d, rg, desc.vsel_reg, desc.vsel_mask,
                                     Shl(Bits(sel), Lowest(desc.vsel_mask)), ok)
         IN  [ret |-> IF r.res = "OK" THEN 0 ELSE to_errno(r.res), regs |-> r.regs]

\* Faulty variant: the return value of the helper is dropped.
set_voltage_sel_regmap_Unchecked(d, rg, desc, sel, ok) ==
    LET r == regulator_set_voltage_sel_regmap(d, rg, desc, sel, ok)
    IN  [res |-> "OK", regs |-> r.regs, val |-> -1, io |-> 1]

\* RegmapHelpers::set_voltage_sel_regmap(): to_result() of the helper.
set_voltage_sel_regmap(d, rg, desc, sel, ok) ==
    LET r == regulator_set_voltage_sel_regmap(d, rg, desc, sel, ok)
    IN  [res |-> to_result(r.ret), regs |-> r.regs, val |-> -1, io |-> 1]

\* Driver::set_voltage_sel() of the NCV6336.
set_voltage_sel(d, rg, sel, ok) ==
    set_voltage_sel_regmap(d, rg, NCV6336_DESC, sel, ok)

\* regulator_is_enabled_regmap(): 1 when the enable field holds the enable
\* value, 0 when not, a negative errno when the read fails.
regulator_is_enabled_regmap(d, rg, desc, ok) ==
    IF ~ok \/ ~is_readable_reg(d, desc.enable_reg) THEN -5
    ELSE IF Bits(rg[desc.enable_reg]) \cap desc.enable_mask = desc.enable_val
    THEN 1 ELSE 0

\* RegmapHelpers::is_enabled_regmap(), which Driver::is_enabled() returns:
\* Err for a negative value, else Ok(ret > 0).
is_enabled_regmap(d, rg, desc, ok) ==
    LET ret == regulator_is_enabled_regmap(d, rg, desc, ok)
    IN  IF ret < 0 THEN [res |-> from_errno(ret), val |-> FALSE]
        ELSE [res |-> "OK", val |-> ret > 0]

\* OperationsVtable::is_enabled_callback(): from_result(|| {
\* T::is_enabled(data, &rdev)?; Ok(0) }).
is_enabled_callback(r) == IF r.res # "OK" THEN to_errno(r.res) ELSE 0

\* ---------------------------------------------------------- the calls
\* A call of the operation table; `counts` for one that may write.
OpCall(op, arg, r, counts) ==
    /\ rop = Idle
    /\ counts => rops < MaxRegOps
    /\ regs' = r.regs
    /\ rop' = Rop(op, 0, arg, {}, FALSE, r.res, r.val, 0, regs, r.regs # regs)
                  @@ [io |-> r.io]
    /\ lastw' = [a \in DOMAIN lastw |-> NoWrite]
    /\ rops' = IF counts THEN rops + 1 ELSE rops
    /\ UNCHANGED <<pvars, decl, focus, ftab, live>>

\* The device was probed: the operations can be called, also after
\* device_remove() (the framework's timing is not under the driver's control).
Probed == decl = "ncv6336" /\ ftab \in {"bound", "dropped"}

SetVoltageSel ==
    /\ Registered
    /\ \E sel \in VselInputs, ok \in BOOLEAN :
        /\ ok \/ sel = 0
        /\ OpCall("set_voltage_sel", sel, set_voltage_sel(decl, regs, sel, ok), TRUE)

IsEnabled ==
    /\ Registered
    /\ \E ok \in BOOLEAN :
        LET r == is_enabled_regmap(decl, regs, NCV6336_DESC, ok)
        IN  OpCall("is_enabled", r,
                   [res |-> "OK", regs |-> regs, val |-> is_enabled_callback(r),
                    io |-> 1], FALSE)

SetMode ==
    /\ Probed
    /\ \E mode \in Modes, ok \in BOOLEAN :
        /\ ok \/ mode = "Fast"
        /\ OpCall("set_mode", mode, set_mode(decl, regs, ftab, mode, ok), TRUE)

GetMode ==
    /\ Probed
    /\ \E ok \in BOOLEAN :
        OpCall("get_mode", 0, get_mode(decl, regs, ftab, ok), FALSE)

SetSuspendVoltage ==
    /\ Probed
    /\ \E uv \in UvInputs, checks \in BOOLEAN, ok \in BOOLEAN :
        /\ ok \/ uv = 600000
        /\ checks \/ uv # 600000
        /\ OpCall("set_suspend_voltage", uv,
                  set_suspend_voltage(decl, regs, ftab, uv, checks, ok), TRUE)

SetSuspendEnable ==
    /\ Probed
    /\ \E ok1 \in BOOLEAN, ok2 \in BOOLEAN :
        OpCall("set_suspend_enable", 0,
               set_suspend_enable(decl, regs, ftab, ok1, ok2), TRUE)

SetSuspendDisable ==
    /\ Probed
    /\ \E ok1 \in BOOLEAN, ok2 \in BOOLEAN :
        OpCall("set_suspend_disable", 0,
               set_suspend_disable(decl, regs, ftab, ok1, ok2), TRUE)

SetSuspendMode ==
    /\ Probed
    /\ \E mode \in Modes, ok \in BOOLEAN :
        /\ ok \/ mode = "Fast"
        /\ OpCall("set_suspend_mode", mode,
                  set_suspend_mode(decl, regs, ftab, mode, ok), TRUE)

\* A probed NCV6336; what the chip does behind the driver and the plain bit
\* accessors are followed on the command and limconf registers.
OpsInit ==
    /\ RegInit
    /\ decl = "ncv6336"
    /\ focus \in {addr("command"), addr("limconf")}

OpsNext ==
    \/ Return
    \/ AllocFields
    \/ DropFields
    \/ HwChange
    \/ \E i \in FieldIds(decl) : BitWrite(i)
    \/ SetVoltageSel
    \/ IsEnabled
    \/ SetMode
    \/ GetMode
    \/ SetSuspendVoltage
    \/ SetSuspendEnable
    \/ SetSuspendDisable
    \/ SetSuspendMode

OpsSpec == OpsInit /\ [][OpsNext]_vars

\* ======================================================================
\* Properties of the NCV6336 operations
\* ======================================================================
Vsel0 == FieldValue(regs[addr("progvsel0")], Field("progvsel0", "voutvsel0"))
Vsel1 == FieldValue(regs[addr("progvsel1")], Field("progvsel1", "voutvsel1"))

\* What get_mode() answers when called on registers rg, its read succeeding.
ModeOf(rg) == get_mode(decl, rg, ftab, TRUE).val

C22_ModeRoundTrip ==
    rop.op = "set_mode" =>
        /\ (rop.res = "OK" /\ rop.arg = "Fast") => ModeOf(regs) = "Fast"
        /\ (rop.res = "OK" /\ rop.arg = "Normal") => ModeOf(regs) = "Normal"
        /\ rop.arg \notin {"Fast", "Normal"} =>
              (rop.res = "ENOTSUPP" /\ regs = rop.before)

\* C22 (amended): the round trips hold; set_mode() with any other mode
\* changes no register bit and fails, with ENOTSUPP while the registrations
\* are available and with EINVAL once device_remove() has revoked them (the
\* registrations are looked up before the mode is).
C22_ModeRoundTripWhileBound ==
    rop.op = "set_mode" =>
        /\ (rop.res = "OK" /\ rop.arg = "Fast") => ModeOf(regs) = "Fast"
        /\ (rop.res = "OK" /\ rop.arg = "Normal") => ModeOf(regs) = "Normal"
        /\ rop.arg \notin {"Fast", "Normal"} =>
              /\ rop.res = (IF ftab = "bound" THEN "ENOTSUPP" ELSE "EINVAL")
              /\ regs = rop.before
              /\ rop.io = 0

C22_Witness ==
    /\ rop.op = "set_mode" /\ rop.arg = "Standby" /\ rop.res = "ENOTSUPP"
    /\ ModeOf(regs) = "Fast"
    /\ ftab = "bound"

\* C23 (as claimed): whenever set_suspend_voltage(uv) returns success, the
\* selector held in progvsel1.voutvsel1 is ceil((uv - 600000) / 6250) and
\* the voltage it encodes, 600000 + 6250 * selector, is >= uv, for every
\* 32-bit uv.
C23_SuspendVoltageRoundsUp ==
    (rop.op = "set_suspend_voltage" /\ rop.res = "OK") =>
        /\ rop.arg >= MinI32 + 600000
        /\ Vsel1 = (rop.arg - 600000 + 6249) \div 6250
        /\ 600000 + 6250 * Vsel1 >= rop.arg

RevokedOps == {"set_mode", "set_suspend_voltage", "set_suspend_enable",
               "set_suspend_disable", "set_suspend_mode"}

\* C24 (as claimed): once device_remove() has revoked the registrations,
\* set_mode, set_suspend_voltage, set_suspend_enable, set_suspend_disable
\* and set_suspend_mode return an error without any register access,
\* get_mode returns Invalid, and none of them panics.
C24_RevokedOpsFail ==
    ftab = "dropped" =>
        /\ rop.op \in RevokedOps =>
              /\ rop.res \notin {"OK", "panic"}
              /\ rop.io = 0
              /\ regs = rop.before
        /\ rop.op = "get_mode" => (rop.val = "Invalid" /\ rop.io = 0)

\* C26 (as claimed): the is_enabled entry of the operation table returns a
\* positive value exactly when the driver's is_enabled is Ok(true), 0
\* exactly when it is Ok(false), and the negative errno when it is an error.
C26_IsEnabledCallback ==
    rop.op = "is_enabled" =>
        /\ (rop.arg.res = "OK" /\ rop.arg.val) => rop.val > 0
        /\ (rop.arg.res = "OK" /\ ~rop.arg.val) => rop.val = 0
        /\ rop.arg.res # "OK" => rop.val = to_errno(rop.arg.res)

\* C29 (as claimed): an accessor of one field never changes what is read
\* through another field of the same register: set_suspend_mode(Normal or
\* Fast) leaves the mode get_mode() returns unchanged, and set/clear of
\* limconf.rearm leaves limconf.rststatus unchanged.
C29_NeighbourFieldsKept ==
    /\ (rop.op = "set_suspend_mode" /\ rop.res = "OK") =>
          ModeOf(regs) = ModeOf(rop.before)
    /\ (rop.op \in {"set", "clear"} /\ rop.res = "OK"
            /\ rop.f = id("limconf", "rearm")) =>
          is_set(decl, regs, id("limconf", "rststatus"), TRUE)
            = is_set(decl, [regs EXCEPT ![addr("limconf")] = rop.before],
                     id("limconf", "rststatus"), TRUE)

\* ======================================================================
\* The regulator consumer (rust/kernel/regulator/consumer.rs)
\* ======================================================================
\* regulator_enable() / regulator_disable() of the core, on a handle that
\* holds n enables: one more, one fewer, or an errno and no change; the
\* regulator is on while the handle holds an enable.
regulator_enable(n, ok) ==
    IF ok THEN [ret |-> 0, count |-> n + 1] ELSE [ret |-> -5, count |-> n]

regulator_disable(n, ok) ==
    IF ok /\ n > 0 THEN [ret |-> 0, count |-> n - 1] ELSE [ret |-> -5, count |-> n]

\* Regulator::enable() and Regulator::disable(): to_result() of the call.
Regulator_enable(n, ok) ==
    LET r == regulator_enable(n, ok)
    IN  [res |-> to_result(r.ret), val |-> FALSE, count |-> r.count]

Regulator_disable(n, ok) ==
    LET r == regulator_disable(n, ok)
    IN  [res |-> to_result(r.ret), val |-> FALSE, count |-> r.count]

\* Regulator::is_enabled(): `let val = bindings::regulator_enable(self.0)`,
\* Err for a negative value, else Ok(val > 0).
Regulator_is_enabled(n, ok) ==
    LET r == regulator_enable(n, ok)
    IN  IF r.ret < 0 THEN [res |-> from_errno(r.ret), val |-> FALSE, count |-> r.count]
        ELSE [res |-> "OK", val |-> r.ret > 0, count |-> r.count]

\* A call on the handle of rail r; rail_net[r] is the number of enables the
\* handle holds.
ConsCall(op, r, out) ==
    /\ rop = Idle
    /\ rail_net' = [rail_net EXCEPT ![r] = out.count]
    /\ rop' = Rop(op, r, 0, {}, FALSE, out.res, out.val, 0, rail_net,
                  out.count # rail_net[r])
    /\ UNCHANGED <<pdata, has_reset, prepared, mode_flags, reset_value, lock,
                   pc, guard_v, guard_regs, guard_reset, idx, err, log, call,
                   pre, failed, fail_at, calls>>
    /\ UNCHANGED <<decl, focus, regs, lastw, ftab, live, rops>>

ConsumerEnable(r) ==
    /\ rail_net[r] < MaxCalls
    /\ \E ok \in BOOLEAN : ConsCall("Regulator::enable", r, Regulator_enable(rail_net[r], ok))

ConsumerDisable(r) ==
    /\ r \in Rails
    /\ \E ok \in BOOLEAN :
          ConsCall("Regulator::disable", r, Regulator_disable(rail_net[r], ok))

ConsumerIsEnabled(r) ==
    /\ rail_net[r] < MaxCalls
    /\ \E ok \in BOOLEAN :
          ConsCall("Regulator::is_enabled", r, Regulator_is_enabled(rail_net[r], ok))

\* The handles a consumer got from Regulator::get(), nothing enabled yet.
ConsInit ==
    /\ PanelUnused
    /\ decl = "none"
    /\ focus = 0
    /\ regs = <<>>
    /\ lastw = <<>>
    /\ ftab = "unbound"
    /\ live = {}
    /\ rop = Idle
    /\ rops = 0

ConsNext ==
    \/ Return
    \/ \E r \in Rails : ConsumerEnable(r)
    \/ \E r \in Rails : ConsumerDisable(r)
    \/ \E r \in Rails : ConsumerIsEnabled(r)

ConsSpec == ConsInit /\ [][ConsNext]_vars

\* C25 (as claimed): Regulator::is_enabled() only checks the state: it
\* returns whether the regulator is enabled and leaves the enable count of
\* every handle unchanged, so is_enabled() calls between an enable() and a
\* disable() do not change what the disable() does.
C25_IsEnabledOnlyChecks ==
    (rop.op = "Regulator::is_enabled" /\ rop.res = "OK") =>
        /\ rail_net = rop.before
        /\ rop.val = (rop.before[rop.f] > 0)
====
